---- MODULE Spec2Model ----
(***************************************************************************)
(* A model of the diet/fitness backend (Next.js route handlers over a      *)
(* MySQL/TiDB database, a nutrition API and a generative-language API).    *)
(*                                                                         *)
(* Part 1: verifyAuth, the bearer-token guard (lib/auth).                  *)
(* Part 2: POST /api/diary and POST /api/food/custom as concurrent         *)
(*         requests, one action per awaited statement.                     *)
(* Part 3: the control flow of every route handler, one request at a time, *)
(*         with the failures a step can meet.                              *)
(***************************************************************************)
EXTENDS Integers, Sequences, FiniteSets, TLC

(***************************************************************************)
(* Bounds of the model.                                                    *)
(***************************************************************************)
MaxParts == 3   \* space-separated parts of an Authorization header
MaxNow == 2     \* clock values at which a token is verified
MaxReq == 2     \* requests served in one run of the concurrent model
MaxDay == 2     \* calendar days the concurrent model runs through
MaxLoginAt == 1 \* days at which a login is made
MaxChat == 1    \* chat requests served one after the other, of any kind
MaxTurns == 3   \* chat requests of one user served one after the other
MaxAdvice == 2  \* POSTs to one revision of the chat route, all remembered
MaxOverlap == 2          \* chat POSTs of one user that overlap
MaxMemory == 2   \* POSTs to the revision with the chat memory
MaxAccountRequests == 2 \* register and login requests, one after the other
MaxFoods == 2           \* foods of a USDA response
MaxClock == 2   \* values of created_at
MaxAge == 31    \* the greatest age of a profile, in years
MaxHeight == 171 \* the greatest height of a profile, in cm
MaxWeight == 70 \* the weight of a profile, in kg
MaxWords == 2   \* words of a query

VARIABLES
    authIn,         \* verifyAuth: the call's inputs (secret, header, clock)
    authOut,        \* verifyAuth: Unset before the call, then its outcome
    food_items,     \* table food_items: rows [id, barcode_upc]
    diary_logs,     \* table diary_logs: rows [id, user_id, food_id, meal_type, log_date]
    diary_logs_seq, \* the sequence diary_logs_seq: the last value NEXTVAL gave
    today,          \* the database server's CURDATE()
    req,            \* the requests: position, inputs, locals and response of each
    http,           \* Part 3: the one request a route handler is serving
    login,          \* Part 4: a login, the token it signed and its presentation
    messages,       \* table messages: rows [id, sender_id, receiver_id, message, created_at]
    users,          \* table users: per id the columns the chat reads and writes
    chat,           \* Part 5: the chat requests
    seen,           \* Part 5: per user, what the last GET /api/chat returned
    server,         \* Part 5: the server process: its GEMINI_API_KEY and chatMemory
    call,           \* Part 6: a call of a pure function, its arguments and result
    accounts,       \* table users: rows [id, name, email, password, goal]
    account         \* Part 7: the register or login request being served

authVars == <<authIn, authOut>>
dbVars == <<food_items, diary_logs, diary_logs_seq>>
diaryVars == <<food_items, diary_logs, diary_logs_seq, today, req>>
httpVars == <<http>>
loginVars == <<login>>
chatVars == <<messages, users, chat, seen, server>>
callVars == <<call>>
accountVars == <<accounts, account>>
afterLoginVars == <<messages, users, chat, seen, server, call, accounts, account>>
laterVars == <<login, messages, users, chat, seen, server, call, accounts,
               account>>
restVars == <<http, login, messages, users, chat, seen, server, call, accounts,
              account>>
vars == <<authIn, authOut, food_items, diary_logs, diary_logs_seq, today, req, http,
          login, messages, users, chat, seen, server, call, accounts, account>>

(***************************************************************************)
(* Part 1.  verifyAuth                                                     *)
(***************************************************************************)

\* The value of process.env.JWT_SECRET: unset, or one of two secrets.
NoSecret == "unset"
Secrets == {"s1", "s2"}

\* One space-separated part of a header: a literal word, or a signed token
\* carrying the payload id, the secret it was signed with and its expiry.
Lit(s) == [lit |-> s, id |-> 0, email |-> "", name |-> "", sig |-> "", exp |-> 0]
Jwt(i, s, e) ==
    [lit |-> "jwt", id |-> i, email |-> "", name |-> "", sig |-> s, exp |-> e]
EmptyWord == Lit("")
Tokens == {Jwt(i, s, 1) : i \in {0, 1}, s \in Secrets}
Words == {EmptyWord, Lit("Bearer"), Lit("Basic"), Lit("junk")} \cup Tokens

\* A header is absent, or a string, held as the list of its parts between
\* single spaces (the list authHeader.split(' ') returns; "" is <<"">>).
NoHeader == <<>>
HeaderStrings == UNION {[1..n -> Words] : n \in 1..MaxParts}
Headers == {NoHeader} \cup HeaderStrings

\* jwt.verify(token, secret): the payload, or a throw for a word that is no
\* token, a signature made with another secret, or an expired token.
Unset == [kind |-> "unset", id |-> 0, email |-> "", name |-> ""]
Thrown == [kind |-> "throw", id |-> 0, email |-> "", name |-> ""]
Null == [kind |-> "null", id |-> 0, email |-> "", name |-> ""]
Payload(token) ==
    [kind |-> "payload", id |-> token.id, email |-> token.email, name |-> token.name]

\* (a verification that does not look at the signature)
jwtVerifyAnySecret(token, secret, now) ==
    IF token.lit = "jwt" /\ now < token.exp
    THEN Payload(token)
    ELSE Thrown

jwtVerify(token, secret, now) ==
    IF token.lit = "jwt" /\ token.sig = secret /\ now < token.exp
    THEN Payload(token)
    ELSE Thrown

\* The body of verifyAuth's try block.
verifyAuthTry(secret, header, now) ==
    IF secret = NoSecret THEN Null
    ELSE IF header = NoHeader \/ header = <<EmptyWord>> THEN Null
    ELSE IF Len(header) < 2 \/ header[2] = EmptyWord THEN Null
    ELSE jwtVerify(header[2], secret, now)

\* verifyAuth: the try block, with the catch turning any throw into null.
verifyAuth(secret, header, now) ==
    LET r == verifyAuthTry(secret, header, now)
    IN  IF r.kind = "throw" THEN Null ELSE r

AuthInputs == [secret : {NoSecret} \cup Secrets, header : Headers, now : 0..MaxNow]

\* The verifyAuth variables when no call is modelled.
AuthIdle ==
    /\ authIn = [secret |-> NoSecret, header |-> NoHeader, now |-> 0]
    /\ authOut = Unset

\* The request of Part 3 before one has arrived, and Part 3 when it serves
\* none.
NoRequest ==
    [h |-> "none", secret |-> NoSecret, key |-> FALSE, header |-> NoHeader,
     body |-> "none", param |-> FALSE, pc |-> "done", trace |-> <<>>,
     conns |-> 0, status |-> 0, message |-> "", err |-> "none",
     ext |-> "none", reply |-> "none", escaped |-> FALSE]
HttpIdle == http = NoRequest

\* Part 4 before any login, and the later parts when they model nothing.
NoLogin ==
    [pc |-> "idle", user |-> [id |-> 0, email |-> "", name |-> ""],
     secret |-> NoSecret, at |-> 0, token |-> EmptyWord]
LoginIdle == login = NoLogin

\* The chat variables when no chat request is modelled, and the call
\* variable when no function is called.
ChatIdle ==
    /\ messages = <<>>
    /\ users = <<>>
    /\ chat = <<>>
    /\ seen = <<>>
    /\ server = <<>>
CallIdle == call = <<>>
\* A response body without a user object, and the request of Part 7 before
\* one has arrived (n: the requests that have arrived; accounts0: the users
\* table as the request found it).
NoUserJson == [f \in {} |-> ""]
NoAccountRequest ==
    [h |-> "none", pc |-> "idle", n |-> 0, kind |-> "none", name |-> "",
     email |-> "", password |-> "", goal |-> "", secret |-> NoSecret,
     fail |-> "none", hashedPassword |-> <<>>, status |-> 0, message |-> "",
     user |-> NoUserJson, token |-> EmptyWord, accounts0 |-> <<>>]
AccountIdle ==
    /\ accounts = <<>>
    /\ account = NoAccountRequest

AfterLoginIdle == ChatIdle /\ CallIdle /\ AccountIdle
LaterIdle == LoginIdle /\ AfterLoginIdle
RestIdle == HttpIdle /\ LaterIdle

(***************************************************************************)
(* Part 2.  POST /api/diary and POST /api/food/custom, concurrently        *)
(***************************************************************************)

Slots == 1..MaxReq
UserIds == {1, 2}

\* The server's JWT_SECRET and clock in the request models, and the bearer
\* header a client holding user u's unexpired token sends.
ServerSecret == "s1"
BearerOf(u) == <<Lit("Bearer"), Jwt(u, ServerSecret, 1)>>
RequestHeaders == {NoHeader} \cup {BearerOf(u) : u \in UserIds}

\* The food_id of a request body: a number, a 'usda-<n>' string, a string
\* that is no number, or absent.
NumId(n) == [t |-> "number", n |-> n]
UsdaId(n) == [t |-> "usda", n |-> n]
TextId == [t |-> "text", n |-> 0]
NoFoodId == [t |-> "missing", n |-> 0]
FoodIdInputs == {NumId(1), UsdaId(1), UsdaId(2), TextId, NoFoodId}
MealInputs == {"lunch", "dinner", ""}

\* The bodies sent while requests overlap: complete ones, of one meal.
OverlapFoodIds == {NumId(1), UsdaId(1), UsdaId(2)}
OverlapMeals == {"lunch"}
FillFoodIds == {UsdaId(1), UsdaId(2)}
FillHeaders == {NoHeader, BearerOf(1)}

\* barcode_upc of a row: NULL for a custom food, 'usda-<n>' as n otherwise.
NoUpc == 0

\* Number(foodId): NaN for a string that is no number.
NaN == -1
Number(foodId) == IF foodId.t = "number" THEN foodId.n ELSE NaN
Falsy(n) == n = 0 \/ n = NaN

NoLog == [id |-> 0, user_id |-> 0, food_id |-> 0, meal_type |-> "", log_date |-> 0]

IdleReq ==
    [pc |-> "idle", handler |-> "", user |-> 0, food_id |-> NoFoodId,
     meal_type |-> "", conn |-> FALSE, localFoodId |-> 0, diaryLogId |-> 0,
     status |-> 0, log |-> NoLog, diary |-> {},
     \* history of the request, read by the properties only
     fetched |-> FALSE, insFood |-> 0, insLog |-> 0, checkDay |-> 0,
     foods0 |-> {}, logs0 |-> {}]

\* A request that was answered and is remembered no longer.
Spent == [IdleReq EXCEPT !.pc = "done"]

\* The request variables when no request is modelled.
DiaryIdle ==
    /\ food_items = {}
    /\ diary_logs = {}
    /\ diary_logs_seq = 0
    /\ today = 1
    /\ req = [r \in Slots |-> IdleReq]

\* The tables at start: one custom food, no log.
DiaryInit ==
    /\ food_items = {[id |-> 1, barcode_upc |-> NoUpc]}
    /\ diary_logs = {}
    /\ diary_logs_seq = 0
    /\ today = 1
    /\ req = [r \in Slots |-> IdleReq]
    /\ AuthIdle
    /\ RestIdle

\* AUTO_INCREMENT of food_items: no row is ever deleted.
NextFoodId(foods) == Cardinality(foods) + 1

\* (a variant that looks the bare FDC id up, which no stored 'usda-' barcode
\* equals)
selectFoodByFdcId(foods, upc) ==
    {f.id : f \in {g \in foods : g.barcode_upc = upc /\ g.barcode_upc = NoUpc}}

\* SELECT id FROM food_items WHERE barcode_upc = ?
selectFoodByUpc(foods, upc) == {f.id : f \in {g \in foods : g.barcode_upc = upc}}

\* (a variant that leaves the meal out)
selectDuplicatesAnyMeal(logs, u, f, m, d) ==
    {l \in logs : l.user_id = u /\ l.food_id = f /\ l.log_date = d}

\* SELECT id FROM diary_logs WHERE user_id = ? AND food_id = ? AND
\* meal_type = ? AND log_date = CURDATE()
selectDuplicates(logs, u, f, m, d) ==
    {l \in logs : l.user_id = u /\ l.food_id = f /\ l.meal_type = m /\ l.log_date = d}

Respond(r, code) ==
    req' = [req EXCEPT ![r].pc = "done", ![r].status = code]

\* connection.end() and the response that follows it.
EndAndRespond(r, code) ==
    req' = [req EXCEPT ![r].pc = "done", ![r].status = code, ![r].conn = FALSE]

\* The head of both POST handlers: verifyAuth, request.json(), the check of
\* the required fields, getConnection().  The request as it stands after
\* them: answered 401, 500 or 400, or holding a connection.
Received(h, hd, f, m, jsonOk, connOk) ==
    LET user == verifyAuth(ServerSecret, hd, 0)
        missing == IF h = "diaryPOST" THEN f.t = "missing" \/ m = "" ELSE m = ""
    IN  IF user.kind # "payload" \/ user.id = 0
        THEN [IdleReq EXCEPT !.pc = "done", !.status = 401]
        ELSE IF ~jsonOk
        THEN [IdleReq EXCEPT !.pc = "done", !.status = 500]
        ELSE IF missing
        THEN [IdleReq EXCEPT !.pc = "done", !.status = 400]
        ELSE IF ~connOk
        THEN [IdleReq EXCEPT !.pc = "done", !.status = 500]
        ELSE [IdleReq EXCEPT
                 !.pc = IF h = "diaryPOST" THEN "ensure" ELSE "customInsert",
                 !.handler = h, !.user = user.id, !.conn = TRUE,
                 !.food_id = IF h = "diaryPOST" THEN f ELSE NoFoodId,
                 !.meal_type = IF h = "diaryPOST" THEN m ELSE ""]

\* A request arrives while others may be in flight.  Requests take the
\* slots in order; the body's fields are drawn from foods and meals (for
\* the custom food, meals stands for its required fields).
Receive(r, headers, foods, meals) ==
    /\ req[r].pc = "idle"
    /\ \A q \in Slots : q < r => req[q].pc # "idle"
    /\ \E h \in {"diaryPOST", "customPOST"}, hd \in headers,
          f \in foods, m \in meals, jsonOk \in BOOLEAN, connOk \in BOOLEAN :
          req' = [req EXCEPT ![r] = Received(h, hd, f, m, jsonOk, connOk)]
    /\ UNCHANGED <<dbVars, today, authVars, restVars>>

\* A request arrives when every earlier one has been answered.  The tables
\* as the request finds them are noted, and the answered requests forgotten.
NoneInFlight == \A q \in Slots : req[q].pc \in {"idle", "done"}

ReceiveAlone(r, headers, foods, meals) ==
    /\ req[r].pc = "idle"
    /\ \A q \in Slots : q < r => req[q].pc # "idle"
    /\ NoneInFlight
    /\ \E h \in {"diaryPOST", "customPOST"}, hd \in headers,
          f \in foods, m \in meals, jsonOk \in BOOLEAN, connOk \in BOOLEAN :
          req' = [q \in Slots |->
                    IF q = r
                    THEN [Received(h, hd, f, m, jsonOk, connOk) EXCEPT
                             !.foods0 = food_items, !.logs0 = diary_logs]
                    ELSE IF q < r THEN Spent ELSE req[q]]
    /\ UNCHANGED <<dbVars, today, authVars, restVars>>

\* ensureFoodExists up to its first await: a number or a string without the
\* 'usda-' prefix is returned as Number(foodId); a 'usda-' id is looked up by
\* barcode_upc and, when found, the first row's id is returned.
ensureFoodExists(r) ==
    /\ req[r].pc = "ensure"
    /\ \/ /\ req[r].food_id.t # "usda"
          /\ LET n == Number(req[r].food_id)
             IN  IF Falsy(n)
                 THEN EndAndRespond(r, 400)
                 ELSE req' = [req EXCEPT ![r].pc = "dupCheck", ![r].localFoodId = n]
       \/ /\ req[r].food_id.t = "usda"
          /\ LET existing == selectFoodByUpc(food_items, req[r].food_id.n)
             IN  IF existing # {}
                 THEN \E id \in existing :
                        req' = [req EXCEPT ![r].pc = "dupCheck", ![r].localFoodId = id]
                 ELSE req' = [req EXCEPT ![r].pc = "fetch"]
    /\ UNCHANGED <<dbVars, today, authVars, restVars>>

\* getUsdaFoodDetails: the details, or null (no API key, a response that is
\* not ok, a throw), after which the handler answers 400.
getUsdaFoodDetails(r) ==
    /\ req[r].pc = "fetch"
    /\ \E ok \in BOOLEAN :
          IF ok
          THEN req' = [req EXCEPT ![r].pc = "foodInsert", ![r].fetched = TRUE]
          ELSE EndAndRespond(r, 400)
    /\ UNCHANGED <<dbVars, today, authVars, restVars>>

\* (a variant that stores a barcode once and returns the stored row's id)
insertFoodItemOnce(r) ==
    /\ req[r].pc = "foodInsert"
    /\ LET existing == selectFoodByUpc(food_items, req[r].food_id.n)
           id == IF existing # {} THEN CHOOSE x \in existing : TRUE
                 ELSE NextFoodId(food_items)
       IN  /\ food_items' = food_items \cup
                  {[id |-> id, barcode_upc |-> req[r].food_id.n]}
           /\ req' = [req EXCEPT ![r].pc = "dupCheck", ![r].localFoodId = id,
                                 ![r].insFood = id]
    /\ UNCHANGED <<diary_logs, diary_logs_seq, today, authVars, restVars>>

\* INSERT INTO food_items (..., barcode_upc, ...): the new row's insertId is
\* the local food id.
insertFoodItem(r) ==
    /\ req[r].pc = "foodInsert"
    /\ LET id == NextFoodId(food_items)
       IN  /\ food_items' = food_items \cup
                  {[id |-> id, barcode_upc |-> req[r].food_id.n]}
           /\ req' = [req EXCEPT ![r].pc = "dupCheck", ![r].localFoodId = id,
                                 ![r].insFood = id]
    /\ UNCHANGED <<diary_logs, diary_logs_seq, today, authVars, restVars>>

\* The duplicate check: 409 when a log of this user, food and meal is dated
\* today.
checkDuplicate(r) ==
    /\ req[r].pc = "dupCheck"
    /\ LET existing == selectDuplicates(diary_logs, req[r].user,
                           req[r].localFoodId, req[r].meal_type, today)
       IN  IF existing # {}
           THEN req' = [req EXCEPT ![r].pc = "done", ![r].status = 409,
                                   ![r].conn = FALSE, ![r].checkDay = today]
           ELSE req' = [req EXCEPT ![r].pc = "nextval", ![r].checkDay = today]
    /\ UNCHANGED <<dbVars, today, authVars, restVars>>

\* SELECT NEXTVAL(diary_logs_seq)
nextDiaryLogId(r) ==
    /\ req[r].pc = "nextval"
    /\ diary_logs_seq' = diary_logs_seq + 1
    /\ req' = [req EXCEPT ![r].pc = "insert", ![r].diaryLogId = diary_logs_seq + 1]
    /\ UNCHANGED <<food_items, diary_logs, today, authVars, restVars>>

\* INSERT INTO diary_logs (id, user_id, food_id, meal_type, ..., CURDATE(), NOW())
insertDiaryLog(r) ==
    /\ req[r].pc = "insert"
    /\ diary_logs' = diary_logs \cup
           {[id |-> req[r].diaryLogId, user_id |-> req[r].user,
             food_id |-> req[r].localFoodId, meal_type |-> req[r].meal_type,
             log_date |-> today]}
    /\ req' = [req EXCEPT ![r].pc = "selectNew", ![r].insLog = req[r].diaryLogId]
    /\ UNCHANGED <<food_items, diary_logs_seq, today, authVars, restVars>>

\* SELECT * FROM diary_logs WHERE id = ?, connection.end(), 201 with the row.
selectNewLog(r) ==
    /\ req[r].pc = "selectNew"
    /\ \E l \in {x \in diary_logs : x.id = req[r].diaryLogId} :
          req' = [req EXCEPT ![r].pc = "done", ![r].status = 201,
                             ![r].conn = FALSE, ![r].log = l]
    /\ UNCHANGED <<dbVars, today, authVars, restVars>>

\* POST /api/food/custom: INSERT INTO food_items without a barcode, then 201.
insertCustomFood(r) ==
    /\ req[r].pc = "customInsert"
    /\ food_items' = food_items \cup
           {[id |-> NextFoodId(food_items), barcode_upc |-> NoUpc]}
    /\ req' = [req EXCEPT ![r].pc = "done", ![r].status = 201, ![r].conn = FALSE,
                          ![r].insFood = NextFoodId(food_items)]
    /\ UNCHANGED <<diary_logs, diary_logs_seq, today, authVars, restVars>>

\* A statement of the request throws: the catch-all answers 500 and the
\* connection is not ended.
AwaitsQuery(r) ==
    \/ req[r].pc \in {"foodInsert", "dupCheck", "nextval", "insert", "selectNew",
                      "customInsert"}
    \/ req[r].pc = "ensure" /\ req[r].food_id.t = "usda"

queryFails(r) ==
    /\ AwaitsQuery(r)
    /\ Respond(r, 500)
    /\ UNCHANGED <<dbVars, today, authVars, restVars>>

\* Midnight passes on the database server.
NextDay ==
    /\ today < MaxDay
    /\ today' = today + 1
    /\ UNCHANGED <<dbVars, req, authVars, restVars>>

Step(r) ==
    \/ ensureFoodExists(r)
    \/ getUsdaFoodDetails(r)
    \/ insertFoodItem(r)
    \/ checkDuplicate(r)
    \/ nextDiaryLogId(r)
    \/ insertDiaryLog(r)
    \/ selectNewLog(r)
    \/ insertCustomFood(r)
    \/ queryFails(r)

\* Requests overlap freely.
Next ==
    \/ \E r \in Slots : Receive(r, RequestHeaders, OverlapFoodIds, OverlapMeals)
    \/ \E r \in Slots : Step(r)
    \/ NextDay

Spec == DiaryInit /\ [][Next]_vars

\* Overlapping diary requests of one user for 'usda-' foods: the cache-fill.
NextFill ==
    \/ \E r \in Slots : Receive(r, FillHeaders, FillFoodIds, OverlapMeals)
    \/ \E r \in Slots : Step(r)

SpecFill == DiaryInit /\ [][NextFill]_vars

\* One request at a time.
NextSeq ==
    \/ \E r \in Slots : ReceiveAlone(r, RequestHeaders, FoodIdInputs, MealInputs)
    \/ \E r \in Slots : Step(r)
    \/ NextDay

SpecSeq == DiaryInit /\ [][NextSeq]_vars

\* One user's requests, one at a time, for the custom food of the table,
\* for a number that is no row's id yet, and for a 'usda-' food.
RefFoodIds == {NumId(1), NumId(2), UsdaId(1)}
NextRefs ==
    \/ \E r \in Slots : ReceiveAlone(r, {BearerOf(1)}, RefFoodIds, OverlapMeals)
    \/ \E r \in Slots : Step(r)

SpecRefs == DiaryInit /\ [][NextRefs]_vars

\* SELECT ... FROM diary_logs d JOIN food_items f ON d.food_id = f.id
\* WHERE d.user_id = ? AND d.log_date = ?: the rows, their order left out
selectDiary(logs, foods, u, date) ==
    {[id |-> p[1].id, meal_type |-> p[1].meal_type, log_date |-> p[1].log_date,
      food_id |-> p[2].id, barcode_upc |-> p[2].barcode_upc] :
        p \in {q \in logs \X foods :
                  /\ q[1].user_id = u
                  /\ q[1].log_date = date
                  /\ q[1].food_id = q[2].id}}

\* The date parameter of GET /api/diary: 0 when it is missing.
NoDate == 0

\* GET /api/diary, the whole handler, when every earlier request has been
\* answered: 401, 400 without a date, 500 when getConnection or the SELECT
\* throws, else 200 with the rows.
getDiary(r) ==
    /\ req[r].pc = "idle"
    /\ \A q \in Slots : q < r => req[q].pc # "idle"
    /\ NoneInFlight
    /\ \E hd \in RequestHeaders, date \in {NoDate} \cup 1..MaxDay, ok \in BOOLEAN :
          LET user == verifyAuth(ServerSecret, hd, 0)
              answered == [IdleReq EXCEPT !.pc = "done", !.handler = "diaryGET"]
          IN  req' = [q \in Slots |->
                        IF q = r
                        THEN IF user.kind # "payload" \/ user.id = 0
                             THEN [answered EXCEPT !.status = 401]
                             ELSE IF date = NoDate
                             THEN [answered EXCEPT !.status = 400]
                             ELSE IF ~ok
                             THEN [answered EXCEPT !.status = 500]
                             ELSE [answered EXCEPT
                                     !.status = 200,
                                     !.user = user.id,
                                     !.diary = selectDiary(diary_logs, food_items,
                                                           user.id, date)]
                        ELSE IF q < r THEN Spent ELSE req[q]]
    /\ UNCHANGED <<dbVars, today, authVars, restVars>>

\* Two users' requests, one at a time: POSTs for the foods above and for a
\* custom food, and GETs of the diary.
NextReads ==
    \/ \E r \in Slots : ReceiveAlone(r, {BearerOf(1), BearerOf(2)}, RefFoodIds, OverlapMeals)
    \/ \E r \in Slots : Step(r)
    \/ \E r \in Slots : getDiary(r)

SpecReads == DiaryInit /\ [][NextReads]_vars

(***************************************************************************)
(* verifyAuth as a function of its inputs                                  *)
(***************************************************************************)
AuthInit ==
    /\ authIn \in AuthInputs
    /\ authOut = Unset
    /\ DiaryIdle
    /\ RestIdle

CallVerifyAuth ==
    /\ authOut = Unset
    /\ authOut' = verifyAuth(authIn.secret, authIn.header, authIn.now)
    /\ UNCHANGED authIn
    /\ UNCHANGED <<diaryVars, restVars>>

AuthNext == CallVerifyAuth

SpecAuth == AuthInit /\ [][AuthNext]_vars


(***************************************************************************)
(* Requests served one after another, as a function of the tables          *)
(***************************************************************************)

Db0 == [foods |-> {[id |-> 1, barcode_upc |-> NoUpc]}, logs |-> {}, seq |-> 0]
DbNow == [foods |-> food_items, logs |-> diary_logs, seq |-> diary_logs_seq]

WithFood(st, upc) ==
    [st EXCEPT !.db.foods = @ \cup {[id |-> NextFoodId(@), barcode_upc |-> upc]}]

\* POST /api/diary from its duplicate check on, run with no other request
\* in between, the local food id being id: the tables and the day it may
\* end with (a statement may throw, and midnight may pass before any).
diaryFrom(st, u, id, m) ==
    UNION {
        IF selectDuplicates(st.db.logs, u, id, m, d1) # {}
        THEN {[st EXCEPT !.day = d1]}
        ELSE {[st EXCEPT !.day = d1]}
             \cup {[st EXCEPT !.day = d2, !.db.seq = @ + 1] : d2 \in d1..MaxDay}
             \cup {[st EXCEPT !.day = d2, !.db.seq = @ + 1,
                              !.db.logs = @ \cup {[id |-> st.db.seq + 1,
                                  user_id |-> u, food_id |-> id, meal_type |-> m,
                                  log_date |-> d2]}] : d2 \in d1..MaxDay}
        : d1 \in st.day..MaxDay}

\* One received request q run with no other request in between.
servedAlone(st, q) ==
    IF q.handler = "customPOST" THEN {st, WithFood(st, NoUpc)}
    ELSE IF q.handler # "diaryPOST" THEN {st}
    ELSE IF q.food_id.t # "usda"
    THEN IF Falsy(Number(q.food_id)) THEN {st}
         ELSE diaryFrom(st, q.user, Number(q.food_id), q.meal_type)
    ELSE LET existing == selectFoodByUpc(st.db.foods, q.food_id.n)
         IN  {st} \cup
             IF existing # {}
             THEN UNION {diaryFrom(st, q.user, id, q.meal_type) : id \in existing}
             ELSE diaryFrom(WithFood(st, q.food_id.n), q.user,
                            NextFoodId(st.db.foods), q.meal_type)

\* The tables the requests of S can leave when served one after another,
\* in any order.
RECURSIVE serialStates(_, _)
serialStates(st, S) ==
    IF S = {} THEN {st.db}
    ELSE UNION {UNION {serialStates(st2, S \ {q}) : st2 \in servedAlone(st, req[q])}
                : q \in S}

(***************************************************************************)
(* Part 3.  The route handlers, one request from arrival to answer         *)
(***************************************************************************)

\* The handlers, by method and route.  The chat route is modelled twice: as
\* app/api/chat/route.ts has it, and as the revision with a catch-all and a
\* welcome message has it (chatHistoryGET, chatMessagePOST); the barcode
\* route likewise, as app/api/food/barcode/[upc]/route.ts has it and as the
\* revision awaiting its params has it (barcodeGET15).
AuthHandlers ==
    {"meGET", "chatGET", "chatPOST", "chatHistoryGET", "chatMessagePOST",
     "recommendPOST", "customFoodPOST", "diaryGET", "diaryPOST"}
OpenHandlers ==
    {"loginPOST", "registerPOST", "foodGET", "barcodeGET", "barcodeGET15"}
HttpHandlers == AuthHandlers \cup OpenHandlers

\* The Authorization headers sent: none, a user's bearer header, a bearer
\* header whose token carries id 0, is signed with another secret, is
\* expired or is no token, a header with two spaces after the scheme, and a
\* user's token under another scheme.
HttpHeaders ==
    {NoHeader,
     BearerOf(1),
     <<Lit("Bearer"), Jwt(0, ServerSecret, 1)>>,
     <<Lit("Bearer"), Jwt(1, "s2", 1)>>,
     <<Lit("Bearer"), Jwt(1, ServerSecret, 0)>>,
     <<Lit("Bearer"), Lit("junk")>>,
     <<Lit("Bearer"), EmptyWord, Jwt(1, ServerSecret, 1)>>,
     <<Lit("Basic"), Jwt(1, ServerSecret, 1)>>}

\* The request body: one request.json() throws on, one that lacks a
\* required field, or a complete one.
Bodies == {"malformed", "incomplete", "complete"}

\* The failures a step can meet, and a stand-in for the message of the
\* Error thrown for each (getConnection's and login's are the code's own).
ErrorMessage(e) ==
    CASE e = "db_connect" -> "Failed to connect to the database. Please check credentials."
      [] e = "query" -> "query failed"
      [] e = "bad_json" -> "Unexpected end of JSON input"
      [] e = "no_jwt_secret" -> "JWT_SECRET is not defined."
      [] e = "fetch" -> "fetch failed"

\* What a handler's outermost level does with a throw: nothing (the handler
\* has no try), answer 500 with the error's own message, or answer 500 with
\* a message written in the handler.
catchOf(h) ==
    CASE h \in {"chatGET", "chatPOST"} -> "none"
      [] h \in {"loginPOST", "recommendPOST", "barcodeGET15"} -> "message"
      [] OTHER -> "fixed"

FixedMessage(h) ==
    CASE h = "loginPOST" -> "Server error during login."
      [] h = "registerPOST" -> "Server error during registration."
      [] h = "meGET" -> "Server error while getting user data"
      [] h = "chatHistoryGET" -> "Failed to fetch messages"
      [] h = "chatMessagePOST" -> "Failed to send message"
      [] h = "recommendPOST" -> "Error processing AI request."
      [] h = "foodGET" -> "Server error while searching for food"
      [] h \in {"barcodeGET", "barcodeGET15"} ->
            "Server error while finding by barcode"
      [] h = "customFoodPOST" -> "Server error while saving custom food."
      [] h = "diaryGET" -> "Server error while fetching diary"
      [] h = "diaryPOST" -> "Server error while logging food"
      [] OTHER -> ""

\* A request as it arrives.
NewRequest(h, secret, key, header, body, param) ==
    [h |-> h, secret |-> secret, key |-> key, header |-> header,
     body |-> body, param |-> param, pc |-> "start", trace |-> <<>>,
     conns |-> 0, status |-> 0, message |-> "", err |-> "none",
     ext |-> "none", reply |-> "none", escaped |-> FALSE]

\* One statement of kind k has run; the handler goes on at next.
Did(s, k) == [s EXCEPT !.trace = Append(@, k)]
Goto(s, k, next) == [Did(s, k) EXCEPT !.pc = next]

\* return NextResponse.json({...}, { status: code })
Answer(s, code, msg) ==
    [s EXCEPT !.pc = "done", !.status = code, !.message = msg]

\* An Error e reaches the handler's outermost level.
Caught(s, e) ==
    CASE catchOf(s.h) = "none" -> [s EXCEPT !.pc = "done", !.escaped = TRUE]
      [] catchOf(s.h) = "message" -> Answer(s, 500, ErrorMessage(e))
      [] OTHER -> Answer(s, 500, FixedMessage(s.h))

\* An internal failure e, thrown where only the outermost level can catch.
Throw(s, e) == Caught([s EXCEPT !.err = e], e)

\* A step that runs no statement.
Skip(s, next) == [s EXCEPT !.pc = next]

\* (a guard that only tests the payload for null)
GuardNullOnly(s, next) ==
    LET user == verifyAuth(s.secret, s.header, 0)
    IN  IF user.kind # "payload"
        THEN {Answer(Did(s, "auth"), 401, "Unauthorized")}
        ELSE {Goto(s, "auth", next)}

\* const user = verifyAuth(request); if (!user || !user.id) return 401
Guard(s, next) ==
    LET user == verifyAuth(s.secret, s.header, 0)
    IN  IF user.kind # "payload" \/ Falsy(user.id)
        THEN {Answer(Did(s, "auth"), 401, "Unauthorized")}
        ELSE {Goto(s, "auth", next)}

\* await request.json()
ParseBody(s, next) ==
    IF s.body = "malformed"
    THEN {Throw(Did(s, "parse"), "bad_json")}
    ELSE {Goto(s, "parse", next)}

\* if (<a required input is missing>) return 400
CheckInput(s, ok, next, msg) ==
    IF ok
    THEN {Goto(s, "validate", next)}
    ELSE {Answer(Did(s, "validate"), 400, msg)}

\* await getConnection(): connects, or throws
Connect(s, next) ==
    {[Goto(s, "connect", next) EXCEPT !.conns = @ + 1],
     Throw(Did(s, "connect"), "db_connect")}

\* await connection.execute(...): a read ("sql") or an INSERT/UPDATE
\* ("write"); runs, or throws
Execute(s, kind, next) ==
    {Goto(s, kind, next), Throw(Did(s, kind), "query")}

\* await connection.end()
EndConn(s) == [Did(s, "end") EXCEPT !.conns = @ - 1]

\* (getAiReply's call without its try)
FetchReplyUncaught(s, next) ==
    {[Goto(s, "fetch", next) EXCEPT !.ext = "ok", !.reply = "api"],
     [Goto(s, "fetch", next) EXCEPT !.ext = "nocontent", !.reply = "canned"],
     Caught([Did(s, "fetch") EXCEPT !.ext = "threw"], "fetch")}

\* The external call of the chat handlers, inside getAiReply's try: usable
\* text, a response without usable text, or a throw; the last two give a
\* canned reply.
FetchReply(s, next) ==
    {[Goto(s, "fetch", next) EXCEPT !.ext = "ok", !.reply = "api"],
     [Goto(s, "fetch", next) EXCEPT !.ext = "nocontent", !.reply = "canned"],
     [Goto(s, "fetch", next) EXCEPT !.ext = "threw", !.reply = "canned"]}


\* POST /api/auth/login
loginPOSTSteps(s) ==
    CASE s.pc = "start" -> ParseBody(s, "validate")
      [] s.pc = "validate" ->
            CheckInput(s, s.body = "complete", "connect",
                       "Please provide email and password.")
      [] s.pc = "connect" -> Connect(s, "select")
      [] s.pc = "select" -> Execute(s, "sql", "end")
      [] s.pc = "end" ->
            LET t == EndConn(s)
            IN  {Answer(t, 404, "User not found."),
                 Answer(t, 401, "Invalid credentials."),
                 IF s.secret = NoSecret
                 THEN Throw(t, "no_jwt_secret")
                 ELSE Answer(t, 200, "Login successful!")}

\* POST /api/auth/register; a duplicate e-mail makes the INSERT throw
\* ER_DUP_ENTRY, which the catch answers with 409.
registerPOSTSteps(s) ==
    CASE s.pc = "start" -> ParseBody(s, "validate")
      [] s.pc = "validate" ->
            CheckInput(s, s.body = "complete", "connect",
                       "Please provide all required fields.")
      [] s.pc = "connect" -> Connect(s, "insert")
      [] s.pc = "insert" ->
            Execute(s, "write", "end")
            \cup {Answer(Did(s, "write"), 409, "Email already exists.")}
      [] s.pc = "end" ->
            {Answer(EndConn(s), 201, "User registered successfully!")}

\* GET /api/user/me
meGETSteps(s) ==
    CASE s.pc = "start" -> Guard(s, "connect")
      [] s.pc = "connect" -> Connect(s, "select")
      [] s.pc = "select" -> Execute(s, "sql", "end")
      [] s.pc = "end" ->
            {Answer(EndConn(s), 404, "User not found"),
             Answer(EndConn(s), 200, "user")}

\* GET /api/chat
chatGETSteps(s) ==
    CASE s.pc = "start" -> Guard(s, "connect")
      [] s.pc = "connect" -> Connect(s, "select")
      [] s.pc = "select" -> Execute(s, "sql", "end")
      [] s.pc = "end" -> {Answer(EndConn(s), 200, "messages")}

\* getUserContext, called from getAiReply: a connection of its own, one
\* SELECT, end.
getUserContext(s, next) ==
    CASE s.pc = "context" -> Connect(s, "contextSelect")
      [] s.pc = "contextSelect" -> Execute(s, "sql", "contextEnd")
      [] s.pc = "contextEnd" -> {Skip(EndConn(s), next)}

\* POST /api/chat: the user's message is saved, getAiReply builds the reply
\* (no key: a canned one; else the context, an UPDATE when the message names
\* an allergy, the history, the call), the reply is saved.
chatPOSTSteps(s) ==
    CASE s.pc = "start" -> Guard(s, "parse")
      [] s.pc = "parse" -> ParseBody(s, "validate")
      [] s.pc = "validate" ->
            CheckInput(s, s.body = "complete", "connect",
                       "Message cannot be empty")
      [] s.pc = "connect" -> Connect(s, "insert")
      [] s.pc = "insert" -> Execute(s, "write", "getAiReply")
      [] s.pc = "getAiReply" ->
            IF s.key
            THEN {Skip(s, "context")}
            ELSE {[s EXCEPT !.pc = "save", !.ext = "nokey", !.reply = "canned"]}
      [] s.pc \in {"context", "contextSelect", "contextEnd"} ->
            getUserContext(s, "allergies")
      [] s.pc = "allergies" -> {Skip(s, "history")} \cup Connect(s, "update")
      [] s.pc = "update" -> Execute(s, "write", "updateEnd")
      [] s.pc = "updateEnd" -> {Skip(EndConn(s), "history")}
      [] s.pc = "history" -> Connect(s, "historySelect")
      [] s.pc = "historySelect" -> Execute(s, "sql", "historyEnd")
      [] s.pc = "historyEnd" -> {Skip(EndConn(s), "fetch")}
      [] s.pc = "fetch" -> FetchReply(s, "save")
      [] s.pc = "save" -> Execute(s, "write", "end")
      [] s.pc = "end" -> {Answer(EndConn(s), 200, "reply")}

\* GET /api/chat with the welcome message: an empty transcript gets one
\* inserted and is read again.
chatHistoryGETSteps(s) ==
    CASE s.pc = "start" -> Guard(s, "connect")
      [] s.pc = "connect" -> Connect(s, "select")
      [] s.pc = "select" ->
            Execute(s, "sql", "end") \cup Execute(s, "sql", "welcome")
      [] s.pc = "welcome" -> Execute(s, "write", "reselect")
      [] s.pc = "reselect" -> Execute(s, "sql", "end")
      [] s.pc = "end" -> {Answer(EndConn(s), 200, "messages")}

\* POST /api/chat with the catch-all: getAiReply answers a question that
\* conflicts with the profile's goal with a canned text and no call.
chatMessagePOSTSteps(s) ==
    CASE s.pc = "start" -> Guard(s, "parse")
      [] s.pc = "parse" -> ParseBody(s, "validate")
      [] s.pc = "validate" ->
            CheckInput(s, s.body = "complete", "connect",
                       "Message cannot be empty")
      [] s.pc = "connect" -> Connect(s, "insert")
      [] s.pc = "insert" -> Execute(s, "write", "getAiReply")
      [] s.pc = "getAiReply" ->
            IF s.key
            THEN {Skip(s, "context")}
            ELSE {[s EXCEPT !.pc = "save", !.ext = "nokey", !.reply = "canned"]}
      [] s.pc \in {"context", "contextSelect", "contextEnd"} ->
            getUserContext(s, "intent")
      [] s.pc = "intent" ->
            {Skip(s, "fetch"), [s EXCEPT !.pc = "save", !.reply = "canned"]}
      [] s.pc = "fetch" -> FetchReply(s, "save")
      [] s.pc = "save" -> Execute(s, "write", "end")
      [] s.pc = "end" -> {Answer(EndConn(s), 200, "reply")}

\* POST /api/ai/recommend: the call is made with whatever key there is and
\* stands in no try of its own; without a key the API sends no content.
recommendPOSTSteps(s) ==
    CASE s.pc = "start" -> Guard(s, "parse")
      [] s.pc = "parse" -> ParseBody(s, "context")
      [] s.pc \in {"context", "contextSelect", "contextEnd"} ->
            getUserContext(s, "fetch")
      [] s.pc = "fetch" ->
            {Answer([Did(s, "fetch") EXCEPT !.ext = "nocontent", !.reply = "canned"],
                    200, "reply"),
             Caught([Did(s, "fetch") EXCEPT !.ext = "threw"], "fetch")}
            \cup (IF s.key
                  THEN {Answer([Did(s, "fetch") EXCEPT !.ext = "ok", !.reply = "api"],
                               200, "reply")}
                  ELSE {})

\* GET /api/food?search=: searchLocalDB catches its own failures and gives
\* no rows; searchUsdaAPI is skipped for an empty search and gives no rows
\* without a key, on a response that is not ok and on a throw.
foodGETSteps(s) ==
    CASE s.pc = "start" -> {Skip(s, "local")}
      [] s.pc = "local" ->
            {[Goto(s, "connect", "localSelect") EXCEPT !.conns = @ + 1],
             [Goto(s, "connect", "usda") EXCEPT !.err = "db_connect"]}
      [] s.pc = "localSelect" ->
            {Goto(s, "sql", "localEnd"),
             [Goto(s, "sql", "usda") EXCEPT !.err = "query"]}
      [] s.pc = "localEnd" -> {Skip(EndConn(s), "usda")}
      [] s.pc = "usda" ->
            IF ~s.param
            THEN {Answer([s EXCEPT !.reply = "local"], 200, "foods")}
            ELSE IF ~s.key
            THEN {Answer([s EXCEPT !.ext = "nokey", !.reply = "local"], 200, "foods")}
            ELSE {Answer([Did(s, "fetch") EXCEPT !.ext = "ok", !.reply = "api"],
                         200, "foods"),
                  Answer([Did(s, "fetch") EXCEPT !.ext = "nocontent", !.reply = "local"],
                         200, "foods"),
                  Answer([Did(s, "fetch") EXCEPT !.ext = "threw", !.reply = "local"],
                         200, "foods")}

\* GET /api/food/barcode/[upc], in both revisions
barcodeGETSteps(s) ==
    CASE s.pc = "start" ->
            CheckInput(s, s.param, "connect", "Barcode (UPC) is required")
      [] s.pc = "connect" -> Connect(s, "select")
      [] s.pc = "select" -> Execute(s, "sql", "end")
      [] s.pc = "end" ->
            {Answer(EndConn(s), 404, "Food item not found for this barcode"),
             Answer(EndConn(s), 200, "food")}

\* (the handler reading the body before it checks the token)
customFoodPOSTParseFirst(s) ==
    CASE s.pc = "start" -> ParseBody(s, "guard")
      [] s.pc = "guard" -> Guard(s, "validate")
      [] s.pc = "validate" ->
            CheckInput(s, s.body = "complete", "connect",
                       "Missing required fields (Name, Calories, Serving Unit).")
      [] s.pc = "connect" -> Connect(s, "insert")
      [] s.pc = "insert" -> Execute(s, "write", "end")
      [] s.pc = "end" -> {Answer(EndConn(s), 201, "Custom food saved")}

\* POST /api/food/custom
customFoodPOSTSteps(s) ==
    CASE s.pc = "start" -> Guard(s, "parse")
      [] s.pc = "parse" -> ParseBody(s, "validate")
      [] s.pc = "validate" ->
            CheckInput(s, s.body = "complete", "connect",
                       "Missing required fields (Name, Calories, Serving Unit).")
      [] s.pc = "connect" -> Connect(s, "insert")
      [] s.pc = "insert" -> Execute(s, "write", "end")
      [] s.pc = "end" -> {Answer(EndConn(s), 201, "Custom food saved")}

\* GET /api/diary?date=
diaryGETSteps(s) ==
    CASE s.pc = "start" -> Guard(s, "validate")
      [] s.pc = "validate" -> CheckInput(s, s.param, "connect", "Date is required")
      [] s.pc = "connect" -> Connect(s, "select")
      [] s.pc = "select" -> Execute(s, "sql", "end")
      [] s.pc = "end" -> {Answer(EndConn(s), 200, "diary")}

\* POST /api/diary.  ensureFoodExists: a food_id that is no 'usda-' id goes
\* on, or is refused when Number() of it is falsy; a 'usda-' id is looked
\* up and, on a miss, fetched (getUsdaFoodDetails: null without a key, on a
\* response that is not ok and on a throw) and inserted.
diaryPOSTSteps(s) ==
    CASE s.pc = "start" -> Guard(s, "parse")
      [] s.pc = "parse" -> ParseBody(s, "validate")
      [] s.pc = "validate" ->
            CheckInput(s, s.body = "complete", "connect", "Required fields missing")
      [] s.pc = "connect" -> Connect(s, "ensure")
      [] s.pc = "ensure" ->
            {Skip(s, "duplicate"), Answer(EndConn(s), 400, "Invalid food item")}
            \cup Execute(s, "sql", "duplicate")
            \cup Execute(s, "sql", "usda")
      [] s.pc = "usda" ->
            IF ~s.key
            THEN {Answer(EndConn([s EXCEPT !.ext = "nokey"]), 400, "Invalid food item")}
            ELSE {[Goto(s, "fetch", "insertFood") EXCEPT !.ext = "ok", !.reply = "api"],
                  Answer(EndConn([Did(s, "fetch") EXCEPT !.ext = "nocontent"]),
                         400, "Invalid food item"),
                  Answer(EndConn([Did(s, "fetch") EXCEPT !.ext = "threw"]),
                         400, "Invalid food item")}
      [] s.pc = "insertFood" -> Execute(s, "write", "duplicate")
      [] s.pc = "duplicate" ->
            Execute(s, "sql", "nextval")
            \cup {Answer(EndConn(Did(s, "sql")), 409, "This item is already in your <meal_type> list.")}
      [] s.pc = "nextval" -> Execute(s, "write", "insertLog")
      [] s.pc = "insertLog" -> Execute(s, "write", "selectLog")
      [] s.pc = "selectLog" -> Execute(s, "sql", "end")
      [] s.pc = "end" -> {Answer(EndConn(s), 201, "Food logged successfully")}

\* The request a handler serves: any header, body, parameter and
\* environment (JWT_SECRET set or not, an API key set or not).
HttpRequests ==
    {NewRequest(h, secret, key, header, body, param) :
        h \in HttpHandlers, secret \in {NoSecret, ServerSecret},
        key \in BOOLEAN, header \in HttpHeaders, body \in Bodies,
        param \in BOOLEAN}

HttpInit ==
    /\ http \in HttpRequests
    /\ AuthIdle
    /\ DiaryIdle
    /\ LaterIdle

\* The request is for handler h and is not answered yet.
Serving(h) == http.h = h /\ http.pc # "done"

loginPOST ==
    /\ Serving("loginPOST")
    /\ http' \in loginPOSTSteps(http)
    /\ UNCHANGED <<authVars, diaryVars, laterVars>>

registerPOST ==
    /\ Serving("registerPOST")
    /\ http' \in registerPOSTSteps(http)
    /\ UNCHANGED <<authVars, diaryVars, laterVars>>

meGET ==
    /\ Serving("meGET")
    /\ http' \in meGETSteps(http)
    /\ UNCHANGED <<authVars, diaryVars, laterVars>>

chatGET ==
    /\ Serving("chatGET")
    /\ http' \in chatGETSteps(http)
    /\ UNCHANGED <<authVars, diaryVars, laterVars>>

chatPOST ==
    /\ Serving("chatPOST")
    /\ http' \in chatPOSTSteps(http)
    /\ UNCHANGED <<authVars, diaryVars, laterVars>>

chatHistoryGET ==
    /\ Serving("chatHistoryGET")
    /\ http' \in chatHistoryGETSteps(http)
    /\ UNCHANGED <<authVars, diaryVars, laterVars>>

chatMessagePOST ==
    /\ Serving("chatMessagePOST")
    /\ http' \in chatMessagePOSTSteps(http)
    /\ UNCHANGED <<authVars, diaryVars, laterVars>>

recommendPOST ==
    /\ Serving("recommendPOST")
    /\ http' \in recommendPOSTSteps(http)
    /\ UNCHANGED <<authVars, diaryVars, laterVars>>

foodGET ==
    /\ Serving("foodGET")
    /\ http' \in foodGETSteps(http)
    /\ UNCHANGED <<authVars, diaryVars, laterVars>>

barcodeGET ==
    /\ Serving("barcodeGET")
    /\ http' \in barcodeGETSteps(http)
    /\ UNCHANGED <<authVars, diaryVars, laterVars>>

barcodeGET15 ==
    /\ Serving("barcodeGET15")
    /\ http' \in barcodeGETSteps(http)
    /\ UNCHANGED <<authVars, diaryVars, laterVars>>

customFoodPOST ==
    /\ Serving("customFoodPOST")
    /\ http' \in customFoodPOSTSteps(http)
    /\ UNCHANGED <<authVars, diaryVars, laterVars>>

diaryGET ==
    /\ Serving("diaryGET")
    /\ http' \in diaryGETSteps(http)
    /\ UNCHANGED <<authVars, diaryVars, laterVars>>

diaryPOST ==
    /\ Serving("diaryPOST")
    /\ http' \in diaryPOSTSteps(http)
    /\ UNCHANGED <<authVars, diaryVars, laterVars>>


HttpNext ==
    \/ loginPOST \/ registerPOST \/ meGET
    \/ chatGET \/ chatPOST \/ chatHistoryGET \/ chatMessagePOST
    \/ recommendPOST \/ foodGET \/ barcodeGET \/ barcodeGET15
    \/ customFoodPOST
    \/ diaryGET \/ diaryPOST

SpecHttp == HttpInit /\ [][HttpNext]_vars

(***************************************************************************)
(* Part 4.  A login, and its token presented to verifyAuth                 *)
(***************************************************************************)

\* The users rows a login can match.
Users ==
    {[id |-> 1, email |-> "ann@example.com", name |-> "Ann"],
     [id |-> 2, email |-> "bob@example.com", name |-> "Bob"],
     [id |-> 3, email |-> "ann@example.org", name |-> "Ann"]}

\* expiresIn: '30d', the clock counting days.
ExpiresIn == 30

\* jwt.sign(payload, secret, { expiresIn: '30d' }) at time now
jwtSign(payload, secret, now) ==
    [lit |-> "jwt", id |-> payload.id, email |-> payload.email,
     name |-> payload.name, sig |-> secret, exp |-> now + ExpiresIn]

\* The days after the login at which its token is presented.
PresentAfter == {0, ExpiresIn - 1, ExpiresIn, ExpiresIn + 1}

\* A login whose e-mail was found and whose password matched.
LoginInit ==
    /\ login \in {[pc |-> "matched", user |-> u, secret |-> s, at |-> t,
                   token |-> EmptyWord] :
                      u \in Users, s \in {NoSecret} \cup Secrets, t \in 0..MaxLoginAt}
    /\ AuthIdle
    /\ DiaryIdle
    /\ HttpIdle
    /\ AfterLoginIdle

\* The payload is built and signed, or the handler throws for want of a
\* secret.
signToken ==
    /\ login.pc = "matched"
    /\ login' =
          IF login.secret = NoSecret
          THEN [login EXCEPT !.pc = "threw"]
          ELSE [login EXCEPT
                  !.pc = "signed",
                  !.token = jwtSign([id |-> login.user.id, email |-> login.user.email,
                                     name |-> login.user.name],
                                    login.secret, login.at)]
    /\ UNCHANGED <<authVars, diaryVars, httpVars, afterLoginVars>>

\* The client sends the token as a bearer header, some days later, to a
\* server with some JWT_SECRET.
presentToken ==
    /\ login.pc = "signed"
    /\ \E s \in {NoSecret} \cup Secrets, d \in PresentAfter :
          authIn' = [secret |-> s, header |-> <<Lit("Bearer"), login.token>>,
                     now |-> login.at + d]
    /\ login' = [login EXCEPT !.pc = "presented"]
    /\ UNCHANGED <<authOut, diaryVars, httpVars, afterLoginVars>>

verifyPresented ==
    /\ login.pc = "presented"
    /\ authOut' = verifyAuth(authIn.secret, authIn.header, authIn.now)
    /\ login' = [login EXCEPT !.pc = "verified"]
    /\ UNCHANGED <<authIn, diaryVars, httpVars, afterLoginVars>>

LoginNext == signToken \/ presentToken \/ verifyPresented

SpecLogin == LoginInit /\ [][LoginNext]_vars

(***************************************************************************)
(* Texts: a string is the sequence of its characters                       *)
(***************************************************************************)

UpperCase ==
    <<"A", "B", "C", "D", "E", "F", "G", "H", "I", "J", "K", "L", "M",
      "N", "O", "P", "Q", "R", "S", "T", "U", "V", "W", "X", "Y", "Z">>
LowerCase ==
    <<"a", "b", "c", "d", "e", "f", "g", "h", "i", "j", "k", "l", "m",
      "n", "o", "p", "q", "r", "s", "t", "u", "v", "w", "x", "y", "z">>

\* String.prototype.toLowerCase
toLowerCase(t) ==
    [i \in 1..Len(t) |->
        IF \E k \in 1..26 : UpperCase[k] = t[i]
        THEN LowerCase[CHOOSE k \in 1..26 : UpperCase[k] = t[i]]
        ELSE t[i]]

\* String.prototype.trim, the white space being blanks and line feeds
WhiteSpace == {" ", "\n"}

RECURSIVE trimStart(_)
trimStart(t) ==
    IF Len(t) > 0 /\ t[1] \in WhiteSpace THEN trimStart(Tail(t)) ELSE t

RECURSIVE trimEnd(_)
trimEnd(t) ==
    IF Len(t) > 0 /\ t[Len(t)] \in WhiteSpace
    THEN trimEnd(SubSeq(t, 1, Len(t) - 1))
    ELSE t

trim(t) == trimEnd(trimStart(t))

\* String.prototype.includes: a occurs in q as a run of characters
includes(q, a) ==
    \E i \in 0..(Len(q) - Len(a)) : SubSeq(q, i + 1, i + Len(a)) = a

\* RegExp.prototype.test and String.prototype.match for a pattern that is
\* an alternation of plain words: one of the words occurs in q
matches(q, words) == \E w \in words : includes(q, w)

\* ALLERGY_VOCABULARY of app/api/chat/route.ts: per allergen its aliases
ALLERGY_VOCABULARY ==
    [oats |-> {<<"o", "a", "t", "s">>, <<"o", "a", "t", "m", "e", "a", "l">>, <<"r", "o", "l", "l", "e", "d", " ", "o", "a", "t", "s">>, <<"o", "a", "t", " ", "f", "l", "o", "u", "r">>, <<"m", "u", "e", "s", "l", "i">>},
     peanut |-> {<<"p", "e", "a", "n", "u", "t">>, <<"p", "e", "a", "n", "u", "t", "s">>, <<"p", "e", "a", "n", "u", "t", " ", "b", "u", "t", "t", "e", "r">>, <<"g", "r", "o", "u", "n", "d", "n", "u", "t">>},
     milk |-> {<<"m", "i", "l", "k">>, <<"d", "a", "i", "r", "y">>, <<"c", "u", "r", "d">>, <<"y", "o", "g", "u", "r", "t">>, <<"c", "h", "e", "e", "s", "e">>, <<"p", "a", "n", "e", "e", "r">>,
               <<"w", "h", "e", "y">>},
     egg |-> {<<"e", "g", "g">>, <<"e", "g", "g", "s">>, <<"o", "m", "e", "l", "e", "t", "t", "e">>, <<"m", "a", "y", "o", "n", "n", "a", "i", "s", "e">>},
     soy |-> {<<"s", "o", "y">>, <<"s", "o", "y", "a">>, <<"t", "o", "f", "u">>, <<"s", "o", "y", " ", "m", "i", "l", "k">>},
     gluten |-> {<<"w", "h", "e", "a", "t">>, <<"b", "a", "r", "l", "e", "y">>, <<"r", "y", "e">>, <<"m", "a", "i", "d", "a">>, <<"f", "l", "o", "u", "r">>, <<"b", "r", "e", "a", "d">>,
                 <<"r", "o", "t", "i">>},
     fish |-> {<<"f", "i", "s", "h">>, <<"s", "e", "a", "f", "o", "o", "d">>, <<"p", "r", "a", "w", "n", "s">>, <<"s", "h", "r", "i", "m", "p">>}]

\* detectAllergyKeys: the allergens one of whose aliases the text mentions
detectAllergyKeys(text) ==
    {base \in DOMAIN ALLERGY_VOCABULARY :
        matches(toLowerCase(text), ALLERGY_VOCABULARY[base])}

\* (detectIntent testing for a weight gain before a weight loss)
detectIntentGainFirst(query) ==
    LET q == toLowerCase(query)
    IN  IF matches(q, {<<"h", "i">>, <<"h", "e", "l", "l", "o">>, <<"h", "e", "y">>}) THEN "greeting"
        ELSE IF matches(q, {<<"g", "a", "i", "n">>, <<"b", "u", "l", "k">>, <<"m", "u", "s", "c", "l", "e">>, <<"w", "e", "i", "g", "h", "t", " ", "g", "a", "i", "n">>})
        THEN "weight_gain"
        ELSE IF matches(q, {<<"l", "o", "s", "e">>, <<"f", "a", "t">>, <<"s", "l", "i", "m">>, <<"w", "e", "i", "g", "h", "t", " ", "l", "o", "s", "s">>})
        THEN "weight_loss"
        ELSE IF matches(q, {<<"d", "i", "a", "b", "e", "t", "e", "s">>, <<"t", "h", "y", "r", "o", "i", "d">>, <<"p", "c", "o", "d">>, <<"b", "p">>,
                            <<"c", "h", "o", "l", "e", "s", "t", "e", "r", "o", "l">>, <<"a", "c", "i", "d", "i", "t", "y">>, <<"p", "a", "i", "n">>})
        THEN "medical"
        ELSE IF matches(q, {<<"c", "a", "l", "o", "r", "i", "e">>, <<"p", "r", "o", "t", "e", "i", "n">>, <<"d", "i", "e", "t">>, <<"f", "o", "o", "d">>, <<"m", "e", "a", "l">>})
        THEN "nutrition"
        ELSE "general"

\* detectIntent of the chat route with the catch-all: the first pattern
\* that matches decides
detectIntent(query) ==
    LET q == toLowerCase(query)
    IN  IF matches(q, {<<"h", "i">>, <<"h", "e", "l", "l", "o">>, <<"h", "e", "y">>}) THEN "greeting"
        ELSE IF matches(q, {<<"l", "o", "s", "e">>, <<"f", "a", "t">>, <<"s", "l", "i", "m">>, <<"w", "e", "i", "g", "h", "t", " ", "l", "o", "s", "s">>})
        THEN "weight_loss"
        ELSE IF matches(q, {<<"g", "a", "i", "n">>, <<"b", "u", "l", "k">>, <<"m", "u", "s", "c", "l", "e">>, <<"w", "e", "i", "g", "h", "t", " ", "g", "a", "i", "n">>})
        THEN "weight_gain"
        ELSE IF matches(q, {<<"d", "i", "a", "b", "e", "t", "e", "s">>, <<"t", "h", "y", "r", "o", "i", "d">>, <<"p", "c", "o", "d">>, <<"b", "p">>,
                            <<"c", "h", "o", "l", "e", "s", "t", "e", "r", "o", "l">>, <<"a", "c", "i", "d", "i", "t", "y">>, <<"p", "a", "i", "n">>})
        THEN "medical"
        ELSE IF matches(q, {<<"c", "a", "l", "o", "r", "i", "e">>, <<"p", "r", "o", "t", "e", "i", "n">>, <<"d", "i", "e", "t">>, <<"f", "o", "o", "d">>, <<"m", "e", "a", "l">>})
        THEN "nutrition"
        ELSE "general"

\* detectIntent of the chat route with the meal plans: a greeting is the
\* whole query, /^(hi|hello|hey|hola)$/
detectIntentMealPlan(query) ==
    LET q == toLowerCase(query)
    IN  IF q \in {<<"h", "i">>, <<"h", "e", "l", "l", "o">>, <<"h", "e", "y">>, <<"h", "o", "l", "a">>} THEN "greeting"
        ELSE IF matches(q, {<<"l", "o", "s", "e">>, <<"f", "a", "t">>, <<"s", "l", "i", "m">>, <<"w", "e", "i", "g", "h", "t", " ", "l", "o", "s", "s">>})
        THEN "weight_loss"
        ELSE IF matches(q, {<<"g", "a", "i", "n">>, <<"b", "u", "l", "k">>, <<"m", "u", "s", "c", "l", "e">>, <<"w", "e", "i", "g", "h", "t", " ", "g", "a", "i", "n">>})
        THEN "weight_gain"
        ELSE IF matches(q, {<<"m", "e", "a", "l", " ", "p", "l", "a", "n">>, <<"f", "u", "l", "l", " ", "d", "a", "y">>, <<"d", "i", "e", "t", " ", "p", "l", "a", "n">>})
        THEN "meal_plan"
        ELSE IF matches(q, {<<"f", "r", "u", "i", "t">>, <<"p", "o", "r", "t", "i", "o", "n">>, <<"s", "e", "r", "v", "i", "n", "g">>}) THEN "portion"
        ELSE IF matches(q, {<<"t", "h", "y", "r", "o", "i", "d">>, <<"d", "i", "a", "b", "e", "t", "e", "s">>, <<"p", "c", "o", "d">>, <<"b", "p">>,
                            <<"c", "h", "o", "l", "e", "s", "t", "e", "r", "o", "l">>, <<"a", "c", "i", "d", "i", "t", "y">>, <<"p", "a", "i", "n">>, <<"b", "l", "o", "a", "t", "i", "n", "g">>})
        THEN "medical"
        ELSE "general"

\* detectIntent of the chat route with the conversation memory: no pattern
\* matching gives null
detectIntentMemory(query) ==
    LET q == toLowerCase(query)
    IN  IF matches(q, {<<"l", "o", "s", "e">>, <<"f", "a", "t">>, <<"s", "l", "i", "m">>, <<"w", "e", "i", "g", "h", "t", " ", "l", "o", "s", "s">>})
        THEN "weight_loss"
        ELSE IF matches(q, {<<"g", "a", "i", "n">>, <<"b", "u", "l", "k">>, <<"m", "u", "s", "c", "l", "e">>, <<"w", "e", "i", "g", "h", "t", " ", "g", "a", "i", "n">>})
        THEN "weight_gain"
        ELSE IF matches(q, {<<"m", "a", "i", "n", "t", "a", "i", "n">>, <<"m", "a", "i", "n", "t", "e", "n", "a", "n", "c", "e">>}) THEN "maintenance"
        ELSE IF matches(q, {<<"t", "h", "y", "r", "o", "i", "d">>, <<"d", "i", "a", "b", "e", "t", "e", "s">>, <<"p", "c", "o", "d">>, <<"b", "p">>,
                            <<"c", "h", "o", "l", "e", "s", "t", "e", "r", "o", "l">>, <<"a", "c", "i", "d", "i", "t", "y">>, <<"p", "a", "i", "n">>, <<"b", "l", "o", "a", "t", "i", "n", "g">>})
        THEN "medical"
        ELSE "null"

(***************************************************************************)
(* Part 5.  The chat transcript: GET and POST /api/chat on the tables      *)
(***************************************************************************)

\* The chat route as app/api/chat/route.ts has it (chatGET, chatPOST), as
\* the revision with a catch-all and a welcome message has it
\* (chatHistoryGET, chatMessagePOST), and the POST of the revision with the
\* meal plans (chatPlanPOST) and of the one with the chat memory
\* (chatMemoryPOST).
ChatGets == {"chatGET", "chatHistoryGET"}
ChatPosts == {"chatPOST", "chatMessagePOST", "chatPlanPOST", "chatMemoryPOST"}
\* The handlers of the route and of its revision with the welcome message.
ChatHandlers == ChatGets \cup {"chatPOST", "chatMessagePOST"}

\* The users rows at start: the goal and the allergies column.
ChatUsers == {1, 2}
UsersAtStart ==
    [u \in ChatUsers |->
        IF u = 1
        THEN [goal |-> "gain_weight", allergies |-> {}]
        ELSE [goal |-> "lose_weight", allergies |-> {"milk"}]]

\* The Authorization headers of the chat requests: none, a bearer token of
\* either user, a bearer token that carries id 0.
ChatHeaders ==
    {NoHeader, BearerOf(1), BearerOf(2), <<Lit("Bearer"), Jwt(0, ServerSecret, 1)>>}

\* The body of a POST: one request.json() throws on, one without a message,
\* or one whose message is a text.
Body(kind, text) == [kind |-> kind, text |-> text]
NoBody == Body("none", <<>>)
ChatTexts == {<<>>, <<" ">>, <<"o", "k">>, <<" ", "E", "g", "g", "s", " ">>, <<"s", "l", "i", "m">>}
ChatBodies ==
    {Body("malformed", <<>>), Body("nomessage", <<>>)}
    \cup {Body("text", t) : t \in ChatTexts}

\* The texts the handlers write themselves, each one symbol, and the text
\* the API sends, which has no markdown in it.
Welcome == <<"Hello, I'm Dr. Sarah, your dietitian.">>
Unavailable(h) ==
    IF h = "chatMessagePOST"
    THEN <<"I am temporarily unavailable. Please try again shortly.">>
    ELSE <<"I am unavailable right now.">>
GoalConflict(goal) ==
    IF goal = "gain_weight"
    THEN <<"I notice your profile goal is weight gain, but you're asking about weight loss.">>
    ELSE <<"Your profile mentions weight loss, but this question sounds like weight gain.">>
ApiText == <<" ", "E", "a", "t", " ", "m", "o", "r", "e", " ", "v", "e", "g", "e", "t", "a", "b", "l", "e", "s", ".", " ">>
ShortText == <<"E", "a", "t", " ", "w", "e", "l", "l", ".">>

\* sanitizeText on a text without markdown: what is left is its trim()
sanitizeText(text) == trim(text)

\* A request's record: position, inputs, locals, response, and its history
\* (history: the chat route's history; contents: the conversation it sent
\* to the API; intent: what the revision's detectIntent makes of the
\* message; ins: the ids of the rows it inserted; prev: what the user's last GET had
\* returned when this one read; fetched: the API was called; dbAt: the
\* database statements run so far), read by the properties only.
IdleChat ==
    [pc |-> "idle", h |-> "", user |-> 0, key |-> FALSE, failAt |-> 0,
     body |-> NoBody, message |-> <<>>, intent |-> "", saved |-> {}, goal |-> "",
     history |-> <<>>, contents |-> <<>>,
     reply |-> <<>>, status |-> 0, result |-> <<>>,
     ins |-> <<>>, prev |-> <<>>, fetched |-> FALSE, dbAt |-> 0,
     messages0 |-> <<>>, users0 |-> <<>>]

\* A request that was answered and is remembered no longer.
SpentChat == [IdleChat EXCEPT !.pc = "done"]

\* A row of messages; by and origin are no columns: the user whose request
\* wrote the row, and where its text came from.
MessageRow(id, sender, receiver, text, at, by, origin) ==
    [id |-> id, sender_id |-> sender, receiver_id |-> receiver,
     message |-> text, created_at |-> at, by |-> by, origin |-> origin]

\* created_at DEFAULT CURRENT_TIMESTAMP: the time of the insert, which is
\* the time of the last insert or later.
TimesOfInsert ==
    LET last == IF messages = <<>> THEN 1 ELSE messages[Len(messages)].created_at
    IN  {t \in {last, last + 1} : t <= MaxClock}

\* (REPLACE for INSERT: the new row takes the place of the last one)
replaceMessage(rows, sender, receiver, text, at, by, origin) ==
    IF rows = <<>>
    THEN <<MessageRow(1, sender, receiver, text, at, by, origin)>>
    ELSE [rows EXCEPT ![Len(rows)] =
             MessageRow(Len(rows), sender, receiver, text, at, by, origin)]

\* INSERT INTO messages (sender_id, receiver_id, message): the id is the
\* AUTO_INCREMENT's next value.
insertMessage(rows, sender, receiver, text, at, by, origin) ==
    Append(rows, MessageRow(Len(rows) + 1, sender, receiver, text, at, by, origin))

\* WHERE (sender_id = ? AND receiver_id = 0) OR (sender_id = 0 AND receiver_id = ?)
rowsOf(rows, u) ==
    {rows[i] : i \in {j \in 1..Len(rows) :
        \/ rows[j].sender_id = u /\ rows[j].receiver_id = 0
        \/ rows[j].sender_id = 0 /\ rows[j].receiver_id = u}}

\* ORDER BY created_at ASC: every order of the rows in which created_at
\* does not decrease; rows of one time come in any order.
RECURSIVE orderByCreatedAt(_)
orderByCreatedAt(S) ==
    IF S = {}
    THEN {<<>>}
    ELSE UNION {{<<r>> \o t : t \in orderByCreatedAt(S \ {r})} :
                   r \in {x \in S : \A o \in S : x.created_at <= o.created_at}}

\* (a guard that only tests the payload for null)
chatGuardNullOnly(user) == user.kind = "payload"

\* const user = verifyAuth(request); if (!user || !user.id) return 401
chatGuard(user) == user.kind = "payload" /\ ~Falsy(user.id)

\* The POSTs of the revisions whose getAiReply detects an intent.
AdvicePosts == {"chatMessagePOST", "chatPlanPOST", "chatMemoryPOST"}

\* The intent a revision's getAiReply detects in the query.
intentOf(h, query) ==
    CASE h = "chatMessagePOST" -> detectIntent(query)
      [] h = "chatPlanPOST" -> detectIntentMealPlan(query)
      [] h = "chatMemoryPOST" -> detectIntentMemory(query)

\* The message a POST stores and hands to getAiReply: its trim(); the
\* revision with the catch-all tests the trim() and keeps the message as sent.
storedMessage(h, text) == IF h = "chatMessagePOST" THEN text ELSE trim(text)

\* A handler up to its first database statement: the guard, for a POST the
\* body and its message, getConnection (the first statement that can fail).
chatReceived(h, hd, key, body, failAt) ==
    LET user == verifyAuth(ServerSecret, hd, 0)
        post == h \in ChatPosts
        asked == [IdleChat EXCEPT
                    !.h = h, !.pc = "done",
                    !.user = IF chatGuard(user) THEN user.id ELSE 0,
                    !.body = IF post THEN body ELSE NoBody]
    IN  IF ~chatGuard(user)
        THEN [asked EXCEPT !.status = 401]
        ELSE IF post /\ body.kind = "malformed"
        THEN [asked EXCEPT !.status = 500]
        ELSE IF post /\ (body.kind = "nomessage" \/ trim(body.text) = <<>>)
        THEN [asked EXCEPT !.status = 400]
        ELSE IF failAt = 1
        THEN [asked EXCEPT !.status = 500, !.failAt = 1, !.dbAt = 1]
        ELSE [asked EXCEPT
                !.pc = IF post THEN "insert" ELSE "select",
                !.key = post /\ key,
                !.failAt = failAt,
                !.dbAt = 1,
                !.message = IF post THEN storedMessage(h, body.text) ELSE <<>>,
                !.intent = IF h \in AdvicePosts
                           THEN intentOf(h, storedMessage(h, body.text))
                           ELSE ""]

\* No request is being served.
NoChatInFlight == \A q \in DOMAIN chat : chat[q].pc \in {"idle", "done"}

\* A request arrives when every earlier one has been answered.  The tables
\* as the request finds them are noted, and the answered requests forgotten.
ChatArrives(handlers, headers, bodies, faults) ==
    /\ NoChatInFlight
    /\ \E r \in DOMAIN chat :
          /\ chat[r].pc = "idle"
          /\ \A q \in DOMAIN chat : q < r => chat[q].pc # "idle"
          /\ \E h \in handlers, hd \in headers, body \in bodies, failAt \in faults :
                chat' = [q \in DOMAIN chat |->
                           IF q = r
                           THEN [chatReceived(h, hd, server.GEMINI_API_KEY, body, failAt) EXCEPT
                                    !.messages0 = messages, !.users0 = users]
                           ELSE IF q < r THEN SpentChat ELSE chat[q]]
    /\ UNCHANGED <<messages, users, seen, server, authVars, diaryVars,
                   httpVars, loginVars, callVars, accountVars>>

\* The next database statement of the request is the one that throws.
Fails(c) == c.failAt = c.dbAt + 1

\* A statement throws: the catch-all answers 500; the chat route has no
\* try and the framework answers 500.
serverError(c) == [c EXCEPT !.pc = "done", !.status = 500, !.dbAt = @ + 1]

\* return NextResponse.json(rows) after connection.end()
respondMessages(c, rows) ==
    [c EXCEPT !.pc = "done", !.status = 200, !.result = rows,
              !.prev = seen[c.user], !.dbAt = @ + 1]

\* if (!rows.length): the welcome message is due
welcomeNeeded(c, rows) == c.h = "chatHistoryGET" /\ Len(rows) = 0

\* GET: SELECT ... ORDER BY created_at ASC.  The chat route answers with the
\* rows; the revision goes on to the welcome message when there are none.
selectMessages ==
    /\ \E r \in DOMAIN chat :
          LET c == chat[r]
          IN  /\ c.pc = "select"
              /\ IF Fails(c)
                 THEN /\ chat' = [chat EXCEPT ![r] = serverError(c)]
                      /\ UNCHANGED seen
                 ELSE \E rows \in orderByCreatedAt(rowsOf(messages, c.user)) :
                         IF welcomeNeeded(c, rows)
                         THEN /\ chat' = [chat EXCEPT ![r].pc = "welcome",
                                                      ![r].dbAt = @ + 1]
                              /\ UNCHANGED seen
                         ELSE /\ chat' = [chat EXCEPT ![r] = respondMessages(c, rows)]
                              /\ seen' = [seen EXCEPT ![c.user] = rows]
    /\ UNCHANGED <<messages, users, server, authVars, diaryVars, httpVars,
                   loginVars, callVars, accountVars>>

\* GET of the revision: INSERT INTO messages ... VALUES (0, ?, ?) with the
\* welcome message
insertWelcome ==
    /\ \E r \in DOMAIN chat :
          LET c == chat[r]
          IN  /\ c.pc = "welcome"
              /\ IF Fails(c)
                 THEN /\ chat' = [chat EXCEPT ![r] = serverError(c)]
                      /\ UNCHANGED messages
                 ELSE \E t \in TimesOfInsert :
                         /\ messages' = insertMessage(messages, 0, c.user, Welcome,
                                                      t, c.user, "welcome")
                         /\ chat' = [chat EXCEPT
                                       ![r].pc = "reselect",
                                       ![r].dbAt = @ + 1,
                                       ![r].ins = Append(@, Len(messages) + 1)]
    /\ UNCHANGED <<users, seen, server, authVars, diaryVars, httpVars,
                   loginVars, callVars, accountVars>>

\* GET of the revision: the SELECT again, and the answer
reselectMessages ==
    /\ \E r \in DOMAIN chat :
          LET c == chat[r]
          IN  /\ c.pc = "reselect"
              /\ IF Fails(c)
                 THEN /\ chat' = [chat EXCEPT ![r] = serverError(c)]
                      /\ UNCHANGED seen
                 ELSE \E rows \in orderByCreatedAt(rowsOf(messages, c.user)) :
                         /\ chat' = [chat EXCEPT ![r] = respondMessages(c, rows)]
                         /\ seen' = [seen EXCEPT ![c.user] = rows]
    /\ UNCHANGED <<messages, users, server, authVars, diaryVars, httpVars,
                   loginVars, callVars, accountVars>>

\* POST: INSERT INTO messages ... VALUES (?, 0, ?) with the user's message,
\* then getAiReply as far as its first await: without a key it returns at
\* once and the reply is saved next.
insertUserMessage ==
    /\ \E r \in DOMAIN chat :
          LET c == chat[r]
          IN  /\ c.pc = "insert"
              /\ IF Fails(c)
                 THEN /\ chat' = [chat EXCEPT ![r] = serverError(c)]
                      /\ UNCHANGED messages
                 ELSE \E t \in TimesOfInsert :
                         /\ messages' = insertMessage(messages, c.user, 0, c.message,
                                                      t, c.user, "body")
                         /\ chat' = [chat EXCEPT
                                       ![r].pc = IF c.key THEN "context" ELSE "save",
                                       ![r].reply = IF c.key THEN <<>> ELSE Unavailable(c.h),
                                       ![r].dbAt = @ + 1,
                                       ![r].ins = Append(@, Len(messages) + 1)]
    /\ UNCHANGED <<users, seen, server, authVars, diaryVars, httpVars,
                   loginVars, callVars, accountVars>>

\* loadFoodVocabulary of the revision with the chat memory: the allergens
\* in the order of the object's keys, and their aliases
FoodBases == <<"oats", "peanut", "milk", "egg", "soy", "gluten", "fish">>
loadFoodVocabulary ==
    [oats |-> {<<"o", "a", "t", "s">>, <<"o", "a", "t", "m", "e", "a", "l">>, <<"r", "o", "l", "l", "e", "d", " ", "o", "a", "t", "s">>, <<"o", "a", "t", " ", "f", "l", "o", "u", "r">>},
     peanut |-> {<<"p", "e", "a", "n", "u", "t">>, <<"p", "e", "a", "n", "u", "t", "s">>, <<"p", "e", "a", "n", "u", "t", " ", "b", "u", "t", "t", "e", "r">>},
     milk |-> {<<"m", "i", "l", "k">>, <<"d", "a", "i", "r", "y">>, <<"c", "u", "r", "d">>, <<"y", "o", "g", "u", "r", "t">>, <<"c", "h", "e", "e", "s", "e">>},
     egg |-> {<<"e", "g", "g">>, <<"e", "g", "g", "s">>},
     soy |-> {<<"s", "o", "y">>, <<"s", "o", "y", "a">>},
     gluten |-> {<<"w", "h", "e", "a", "t">>, <<"b", "a", "r", "l", "e", "y">>, <<"r", "y", "e">>},
     fish |-> {<<"f", "i", "s", "h">>, <<"s", "e", "a", "f", "o", "o", "d">>}]

\* detectUserAllergies: the allergens one of whose aliases the lowercased
\* query contains, in the order of the vocabulary
detectUserAllergies(query) ==
    LET found(base) == matches(toLowerCase(query), loadFoodVocabulary[base])
    IN  SelectSeq(FoodBases, found)

\* found.forEach(a => { if (!allergies.includes(a)) allergies.push(a) })
RECURSIVE pushNew(_, _)
pushNew(allergies, found) ==
    IF Len(found) = 0
    THEN allergies
    ELSE pushNew(IF \E i \in 1..Len(allergies) : allergies[i] = Head(found)
                 THEN allergies
                 ELSE Append(allergies, Head(found)),
                 Tail(found))

\* What enforceAllergyRules returns: null, or the refusal for an allergen.
NoViolation == "null"

\* (enforceAllergyRules comparing the whole query with the alias)
enforceAllergyRulesWholeQuery(query, userAllergies) ==
    LET q == toLowerCase(query)
        hits == {i \in 1..Len(userAllergies) : q \in loadFoodVocabulary[userAllergies[i]]}
    IN  IF hits = {}
        THEN NoViolation
        ELSE userAllergies[CHOOSE i \in hits : \A j \in hits : i <= j]

\* enforceAllergyRules: the first allergen of the list one of whose
\* aliases the lowercased query contains
enforceAllergyRules(query, userAllergies) ==
    LET q == toLowerCase(query)
        hits == {i \in 1..Len(userAllergies) :
                    matches(q, loadFoodVocabulary[userAllergies[i]])}
    IN  IF hits = {}
        THEN NoViolation
        ELSE userAllergies[CHOOSE i \in hits : \A j \in hits : i <= j]

\* The refusal enforceAllergyRules writes for an allergen.
Refusal(allergy) ==
    <<"Because you have a ", allergy, " allergy, foods containing ", allergy, " are not safe for you.">>

\* getChatContext: the user's entry of chatMemory, a new one when there is
\* none
NoContext == [activeIntent |-> "null", allergies |-> <<>>]
getChatContext(memory, userId) ==
    IF userId \in DOMAIN memory THEN memory[userId] ELSE NoContext

\* (one context object shared by the users who have an entry)
setChatContextShared(memory, userId, context) ==
    [u \in DOMAIN memory \cup {userId} |-> context]

\* The entry of a user set in chatMemory.
setChatContext(memory, userId, context) ==
    [u \in DOMAIN memory \cup {userId} |-> IF u = userId THEN context ELSE memory[u]]

\* safeFallback of the revision with the meal plans
safeFallback(intent) ==
    CASE intent \in {"meal_plan", "weight_loss"} ->
            <<"For weight loss, structure your day with three balanced meals and one light snack.">>
      [] intent = "portion" -> <<"For weight loss, aim for two servings of fruit per day.">>
      [] intent = "medical" -> <<"For health concerns, keep meals regular and balanced.">>
      [] OTHER -> <<"A balanced diet with regular meals, enough protein, vegetables, and hydration works well for most people.">>

\* (a conflict found for every goal)
goalConflictAnyGoal(goal, intent) == intent \in {"weight_loss", "weight_gain"}

\* The revision's getAiReply: the profile's goal is one way and the
\* question the other
goalConflict(goal, intent) ==
    \/ goal = "gain_weight" /\ intent = "weight_loss"
    \/ goal = "lose_weight" /\ intent = "weight_gain"

\* getAiReply of the three revisions between getUserContext and the call:
\* whether the function answers itself or calls the API, and the context
\* it leaves in chatMemory.  The revision with the catch-all answers a
\* question that conflicts with the goal, the one with the meal plans a
\* greeting, the one with the chat memory a query that names an allergen
\* of the user's list.
Answered(text, context) == [path |-> "answered", reply |-> text, context |-> context]
CallsApi(context) == [path |-> "api", reply |-> <<>>, context |-> context]
adviceOf(h, goal, context, query) ==
    CASE h = "chatMessagePOST" ->
            IF goalConflict(goal, detectIntent(query))
            THEN Answered(GoalConflict(goal), context)
            ELSE CallsApi(context)
      [] h = "chatPlanPOST" ->
            IF detectIntentMealPlan(query) = "greeting"
            THEN Answered(<<"Hi, how can I help you today?">>, context)
            ELSE CallsApi(context)
      [] h = "chatMemoryPOST" ->
            LET intent == detectIntentMemory(query)
                updated == [activeIntent |-> IF intent # "null" THEN intent
                                             ELSE context.activeIntent,
                            allergies |-> pushNew(context.allergies,
                                                  detectUserAllergies(query))]
                violation == enforceAllergyRules(query, updated.allergies)
            IN  IF violation # NoViolation
                THEN Answered(Refusal(violation), updated)
                ELSE CallsApi(updated)

\* getUserContext: SELECT ... FROM users WHERE id = ?, on a connection of
\* its own, the profile being {} when there is no such row; then getAiReply
\* as far as its next await.  The chat route looks for allergens in the
\* message; the revisions answer some questions themselves.
readUserContext ==
    /\ \E r \in DOMAIN chat :
          LET c == chat[r]
              row == IF c.user \in DOMAIN users
                     THEN users[c.user]
                     ELSE [goal |-> "", allergies |-> {}]
              before == getChatContext(server.chatMemory, c.user)
              advice == adviceOf(c.h, row.goal, before, c.message)
          IN  /\ c.pc = "context"
              /\ chat' =
                    IF Fails(c)
                    THEN [chat EXCEPT ![r] = serverError(c)]
                    ELSE IF c.h = "chatPOST"
                    THEN [chat EXCEPT
                            ![r].saved = row.allergies,
                            ![r].goal = row.goal,
                            ![r].dbAt = @ + 1,
                            ![r].pc = IF detectAllergyKeys(c.message) # {}
                                      THEN "update" ELSE "history"]
                    ELSE [chat EXCEPT
                            ![r].goal = row.goal,
                            ![r].dbAt = @ + 1,
                            ![r].reply = advice.reply,
                            ![r].pc = IF advice.path = "api" THEN "fetch" ELSE "save"]
              /\ server' =
                    IF ~Fails(c) /\ c.h = "chatMemoryPOST"
                    THEN [server EXCEPT
                            !.chatMemory = setChatContext(@, c.user, advice.context)]
                    ELSE server
    /\ UNCHANGED <<messages, users, seen, authVars, diaryVars, httpVars,
                   loginVars, callVars, accountVars>>

\* UPDATE users SET allergies = ? WHERE id = ?: the allergies read before,
\* and the ones the message names
updateAllergies ==
    /\ \E r \in DOMAIN chat :
          LET c == chat[r]
          IN  /\ c.pc = "update"
              /\ IF Fails(c)
                 THEN /\ chat' = [chat EXCEPT ![r] = serverError(c)]
                      /\ UNCHANGED users
                 ELSE /\ users' = [u \in DOMAIN users |->
                                     IF u = c.user
                                     THEN [users[u] EXCEPT
                                             !.allergies =
                                                 c.saved \cup detectAllergyKeys(c.message)]
                                     ELSE users[u]]
                      /\ chat' = [chat EXCEPT ![r].pc = "history", ![r].dbAt = @ + 1]
    /\ UNCHANGED <<messages, seen, server, authVars, diaryVars, httpVars,
                   loginVars, callVars, accountVars>>

\* LIMIT 10 of the history query
HistoryLimit == 10

\* A turn of the conversation sent to the API.
Turn(role, text) == [role |-> role, text |-> text]

\* ORDER BY created_at DESC LIMIT 10, then reverse(): the last ten of the
\* rows in an order of created_at
lastRows(rows, n) ==
    SubSeq(rows, IF Len(rows) > n THEN Len(rows) - n + 1 ELSE 1, Len(rows))

\* historyRows.reverse().map(...): role 'model' for sender 0, 'user' otherwise
historyOf(rows) ==
    [i \in 1..Len(rows) |->
        Turn(IF rows[i].sender_id = 0 THEN "model" ELSE "user", rows[i].message)]

\* contents: [...history, { role: 'user', parts: [{ text: query }] }]
contentsOf(history, query) == history \o <<Turn("user", query)>>

\* SELECT sender_id, message ... ORDER BY created_at DESC LIMIT 10
selectHistory ==
    /\ \E r \in DOMAIN chat :
          LET c == chat[r]
          IN  /\ c.pc = "history"
              /\ IF Fails(c)
                 THEN chat' = [chat EXCEPT ![r] = serverError(c)]
                 ELSE \E rows \in orderByCreatedAt(rowsOf(messages, c.user)) :
                         chat' = [chat EXCEPT
                                    ![r].pc = "fetch",
                                    ![r].dbAt = @ + 1,
                                    ![r].history =
                                        historyOf(lastRows(rows, HistoryLimit))]
    /\ UNCHANGED <<messages, users, seen, server, authVars, diaryVars,
                   httpVars, loginVars, callVars, accountVars>>

\* What the call gives: a text, a text of fewer than 20 characters, an
\* error object, no text, or a throw.
ApiOutcomes == {"ok", "short", "error", "nocontent", "threw"}

\* The reply getAiReply makes of the call's outcome.
replyOf(h, query, outcome) ==
    LET raw == IF outcome = "short" THEN ShortText ELSE ApiText
        text == outcome \in {"ok", "short"}
    IN  CASE h = "chatPOST" ->
                IF text THEN sanitizeText(raw)
                ELSE IF outcome = "error"
                THEN <<"I'm having a bit of trouble focusing. Could you repeat that?">>
                ELSE IF outcome = "nocontent"
                THEN <<"How can I help you with your nutrition today?">>
                ELSE <<"I seem to be offline. Please try again in a moment.">>
          [] h = "chatMessagePOST" ->
                IF text THEN raw
                ELSE IF outcome \in {"error", "nocontent"}
                THEN <<"Could you please explain that a bit more?">>
                ELSE <<"I'm having trouble responding right now. Please try again in a moment.">>
          [] h = "chatPlanPOST" ->
                IF text /\ Len(raw) >= 20
                THEN sanitizeText(raw)
                ELSE safeFallback(detectIntentMealPlan(query))
          [] h = "chatMemoryPOST" ->
                IF text THEN sanitizeText(raw) ELSE <<"Please try again.">>

\* await fetch(GEMINI_API_URL ...), inside getAiReply's try
callApi ==
    /\ \E r \in DOMAIN chat :
          /\ chat[r].pc = "fetch"
          /\ \E outcome \in ApiOutcomes :
                chat' = [chat EXCEPT
                           ![r].pc = "save",
                           ![r].fetched = TRUE,
                           ![r].contents =
                               IF chat[r].h = "chatPOST"
                               THEN contentsOf(chat[r].history, chat[r].message)
                               ELSE <<>>,
                           ![r].reply = replyOf(chat[r].h, chat[r].message, outcome)]
    /\ UNCHANGED <<messages, users, seen, server, authVars, diaryVars,
                   httpVars, loginVars, callVars, accountVars>>

\* POST: INSERT INTO messages ... VALUES (0, ?, ?) with the reply, then
\* connection.end() and the answer { reply }
insertReply ==
    /\ \E r \in DOMAIN chat :
          LET c == chat[r]
          IN  /\ c.pc = "save"
              /\ IF Fails(c)
                 THEN /\ chat' = [chat EXCEPT ![r] = serverError(c)]
                      /\ UNCHANGED messages
                 ELSE \E t \in TimesOfInsert :
                         /\ messages' = insertMessage(messages, 0, c.user, c.reply,
                                                      t, c.user, "reply")
                         /\ chat' = [chat EXCEPT
                                       ![r].pc = "done",
                                       ![r].status = 200,
                                       ![r].dbAt = @ + 1,
                                       ![r].ins = Append(@, Len(messages) + 1)]
    /\ UNCHANGED <<users, seen, server, authVars, diaryVars, httpVars,
                   loginVars, callVars, accountVars>>

\* The statements of the longest handler, getConnection first: one of them
\* throws, or none (0).
ChatFaults == 0..6

ChatInit(n, keys) ==
    /\ server \in [GEMINI_API_KEY : keys, chatMemory : {<<>>}]
    /\ messages = <<>>
    /\ users = UsersAtStart
    /\ chat = [r \in 1..n |-> IdleChat]
    /\ seen = [u \in {0} \cup ChatUsers |-> <<>>]
    /\ AuthIdle
    /\ DiaryIdle
    /\ HttpIdle
    /\ LoginIdle
    /\ CallIdle
    /\ AccountIdle

ChatSteps ==
    \/ selectMessages \/ insertWelcome \/ reselectMessages
    \/ insertUserMessage \/ readUserContext \/ updateAllergies
    \/ selectHistory \/ callApi \/ insertReply

\* Any requests of the chat handlers, one after the other.
ChatNext ==
    \/ ChatArrives(ChatHandlers, ChatHeaders, ChatBodies, ChatFaults)
    \/ ChatSteps

SpecChat == ChatInit(MaxChat, BOOLEAN) /\ [][ChatNext]_vars

\* One user's requests on a server without an API key and without
\* failures: GETs, and POSTs of one message.
TranscriptNext ==
    \/ ChatArrives(ChatHandlers, {BearerOf(1)}, {Body("text", <<"o", "k">>)}, {0})
    \/ selectMessages \/ insertWelcome \/ reselectMessages
    \/ insertUserMessage \/ insertReply

SpecTranscript == ChatInit(MaxTurns, {FALSE}) /\ [][TranscriptNext]_vars

\* The messages of chat POSTs that overlap: each names an allergen.
OverlapTexts == {<<" ", "E", "g", "g", "s", " ">>, <<"s", "o", "y">>}

\* A chat POST of user 1 arrives on a server with an API key, whether or
\* not an earlier one is still being served; no statement throws.
chatPostOverlaps ==
    /\ \E r \in DOMAIN chat :
          /\ chat[r].pc = "idle"
          /\ \A q \in DOMAIN chat : q < r => chat[q].pc # "idle"
          /\ \E text \in OverlapTexts :
                chat' = [chat EXCEPT
                           ![r] = [chatReceived("chatPOST", BearerOf(1),
                                                server.GEMINI_API_KEY,
                                                Body("text", text), 0)
                                      EXCEPT !.messages0 = messages,
                                             !.users0 = users]]
    /\ UNCHANGED <<messages, users, seen, server, authVars, diaryVars,
                   httpVars, loginVars, callVars, accountVars>>

OverlapNext ==
    \/ chatPostOverlaps
    \/ insertUserMessage \/ readUserContext \/ updateAllergies
    \/ selectHistory \/ callApi \/ insertReply

SpecOverlap == ChatInit(MaxOverlap, {TRUE}) /\ [][OverlapNext]_vars

AdviceTexts == {<<"h", "i">>, <<"o", "k">>, <<"s", "l", "i", "m">>, <<"g", "a", "i", "n">>, <<"n", "o", " ", "E", "g", "g", "s">>}

\* A server runs one revision of the route: one user's POSTs to it, one
\* after the other, the answered ones remembered; no statement throws.
AdviceArrives ==
    /\ NoChatInFlight
    /\ \E r \in DOMAIN chat :
          /\ chat[r].pc = "idle"
          /\ \A q \in DOMAIN chat : q < r => chat[q].pc # "idle"
          /\ \E h \in AdvicePosts, text \in AdviceTexts :
                /\ \A q \in DOMAIN chat : q < r => chat[q].h = h
                /\ chat' = [chat EXCEPT ![r] =
                              [chatReceived(h, BearerOf(1), server.GEMINI_API_KEY,
                                            Body("text", text), 0)
                               EXCEPT !.messages0 = messages, !.users0 = users]]
    /\ UNCHANGED <<messages, users, seen, server, authVars, diaryVars,
                   httpVars, loginVars, callVars, accountVars>>

AdviceNext ==
    \/ AdviceArrives
    \/ insertUserMessage \/ readUserContext \/ callApi \/ insertReply

SpecAdvice == ChatInit(MaxAdvice, BOOLEAN) /\ [][AdviceNext]_vars

\* Two users' POSTs to the revision with the chat memory, on a server that
\* has an API key.
MemoryTexts == {<<"o", "k">>, <<"s", "l", "i", "m">>, <<"g", "a", "i", "n", " ", "e", "g", "g", "s">>}
MemoryNext ==
    \/ ChatArrives({"chatMemoryPOST"}, {BearerOf(1), BearerOf(2)},
                   {Body("text", t) : t \in MemoryTexts}, {0, 3})
    \/ insertUserMessage \/ readUserContext \/ callApi \/ insertReply

SpecMemory == ChatInit(MaxMemory, {TRUE}) /\ [][MemoryNext]_vars


(***************************************************************************)
(* Properties                                                              *)
(***************************************************************************)

\* C1: after any requests, overlapping ones included, diary_logs holds at
\* most one row per (user_id, food_id, meal_type, calendar day).
C1_OneLogPerUserFoodMealDay ==
    \A a \in diary_logs, b \in diary_logs :
        (/\ a.user_id = b.user_id /\ a.food_id = b.food_id
         /\ a.meal_type = b.meal_type /\ a.log_date = b.log_date) => a = b

\* C2: nothing guards the cache-fill; any two requests that both went on
\* from a miss to fetch and insert have each added a row of their own with
\* the barcode they asked for, so two requests for one 'usda-' id leave two
\* rows of the same barcode_upc.
C2_EveryMissInsertsItsOwnRow ==
    \A r1 \in Slots, r2 \in Slots :
        (/\ req[r1].food_id.t = "usda" /\ req[r1].insFood # 0
         /\ req[r2].food_id.t = "usda" /\ req[r2].insFood # 0) =>
            /\ req[r1].fetched
            /\ [id |-> req[r1].insFood, barcode_upc |-> req[r1].food_id.n] \in food_items
            /\ (r1 # r2 => req[r1].insFood # req[r2].insFood)

\* C2, the state the claim says is reachable: two requests for one 'usda-'
\* id have both fetched and both inserted, and two rows share the barcode.
C2_DoubleInsert ==
    \E r1 \in Slots, r2 \in Slots :
        /\ r1 # r2
        /\ req[r1].food_id.t = "usda" /\ req[r1].food_id = req[r2].food_id
        /\ req[r1].fetched /\ req[r2].fetched
        /\ req[r1].insFood # 0 /\ req[r2].insFood # 0
        /\ Cardinality({f \in food_items : f.barcode_upc = req[r1].food_id.n}) = 2

\* C3: the cache-fill apart (no request names a 'usda-' food), the tables
\* that overlapping requests leave when all are answered are tables the same
\* requests leave when served one after another in some order.
C3_OverlapIsSerial ==
    (/\ NoneInFlight
     /\ \A q \in Slots : req[q].food_id.t # "usda")
    => DbNow \in serialStates([db |-> Db0, day |-> 1],
                              {q \in Slots : req[q].pc = "done"})

HadLog(r) ==
    \E l \in req[r].logs0 :
        /\ l.user_id = req[r].user /\ l.food_id = req[r].localFoodId
        /\ l.meal_type = req[r].meal_type /\ l.log_date = req[r].checkDay

\* C5: one request at a time, a diary POST that comes to its duplicate
\* check is answered 409 with diary_logs as it found it when a log of its
\* user, local food and meal is dated today, and otherwise (no statement
\* throwing) 201 with the one log it inserted.
C5_DuplicateIs409ElseOneLog ==
    \A r \in Slots :
        req[r].checkDay # 0 =>
            /\ HadLog(r) => (req[r].status = 409 /\ diary_logs = req[r].logs0)
            /\ req[r].status = 409 => HadLog(r)
            /\ (req[r].pc = "done" /\ ~HadLog(r) /\ req[r].status # 500) =>
                  /\ req[r].status = 201
                  /\ req[r].log \notin req[r].logs0
                  /\ diary_logs = req[r].logs0 \cup {req[r].log}
                  /\ req[r].log.user_id = req[r].user
                  /\ req[r].log.food_id = req[r].localFoodId
                  /\ req[r].log.meal_type = req[r].meal_type
                  /\ req[r].log.log_date >= req[r].checkDay
            /\ ~HadLog(r) => Cardinality(diary_logs \ req[r].logs0) <= 1

\* C5, its case: a request was answered 409.
C5_Answered409 ==
    \E r \in Slots : req[r].handler = "diaryPOST" /\ req[r].status = 409

\* C6: every handler catches every internal failure (database connection
\* failure, query error, malformed request body, missing JWT secret) and
\* answers it with status 500 and the one message written in its catch,
\* whatever the error was.
C6_FailureIs500FixedMessage ==
    (http.pc = "done" /\ http.err # "none") =>
        /\ ~http.escaped
        /\ http.status = 500
        /\ http.message = FixedMessage(http.h)

\* The handlers that call an external API, and a call that failed: it
\* threw, or its response had no usable content.
ExternalHandlers ==
    {"chatPOST", "chatMessagePOST", "recommendPOST", "foodGET", "diaryPOST"}
ExternalFailed(s) == s.ext \in {"nocontent", "threw"}

BadToken(secret, header) ==
    \/ header = NoHeader
    \/ Len(header) < 2
    \/ jwtVerify(header[2], secret, 0).kind # "payload"
    \/ Falsy(jwtVerify(header[2], secret, 0).id)

\* C8: a handler that calls verifyAuth answers a request with a bad token
\* 401, and by then has run only the check: no body parsed, no connection
\* opened, no statement run, no external call made.
C8_UnauthorizedBeforeAnythingElse ==
    (http.h \in AuthHandlers /\ BadToken(http.secret, http.header)) =>
        \/ http.pc = "start" /\ http.trace = <<>>
        \/ /\ http.pc = "done" /\ http.status = 401 /\ ~http.escaped
           /\ http.trace = <<"auth">>
           /\ http.conns = 0 /\ http.err = "none" /\ http.ext = "none"

\* C8's case: POST /api/food/custom has answered 401 to a token with id 0
\* that came with a body request.json() would throw on.
C8_RefusedWithBadBody ==
    /\ http.pc = "done" /\ http.h = "customFoodPOST"
    /\ http.header = <<Lit("Bearer"), Jwt(0, ServerSecret, 1)>>
    /\ http.body = "malformed"
    /\ http.status = 401

\* A bearer header whose token verifies against the server's secret.
ValidBearer(secret, header) ==
    /\ Len(header) = 2
    /\ header[1] = Lit("Bearer")
    /\ ~BadToken(secret, header)

IsSql(k) == k \in {"sql", "write"}

ValidatingHandlers ==
    {"chatPOST", "chatMessagePOST", "customFoodPOST", "diaryGET", "diaryPOST"}

C11_LoginTokenRoundTrip ==
    login.pc = "verified" =>
        /\ (authIn.secret = login.secret /\ authIn.now < login.at + ExpiresIn) =>
              /\ authOut.kind = "payload"
              /\ authOut.id = login.user.id
              /\ authOut.email = login.user.email
              /\ authOut.name = login.user.name
        /\ authIn.secret # login.secret => authOut = Null

\* C11's case: a token presented on the last day of its validity has been
\* accepted.
C11_AcceptedOnLastDay ==
    /\ login.pc = "verified"
    /\ authIn.now = login.at + ExpiresIn - 1
    /\ authOut.kind = "payload"

\* C10: verifyAuth never throws, and returns the payload only when the
\* secret is set and the header is a Bearer header whose token verifies
\* against the secret and is unexpired; otherwise null.
C10_PayloadOnlyForBearer ==
    authOut # Unset =>
        /\ authOut.kind \in {"null", "payload"}
        /\ authOut.kind = "payload" =>
              /\ authIn.secret # NoSecret
              /\ Len(authIn.header) >= 2
              /\ authIn.header[1] = Lit("Bearer")
              /\ authIn.header[2].lit = "jwt"
              /\ authIn.header[2].sig = authIn.secret
              /\ authIn.now < authIn.header[2].exp
              /\ authOut.id = authIn.header[2].id

(***************************************************************************)
(* Part 6.  The pure functions of the chat handlers, one call at a time    *)
(***************************************************************************)

\* A number of a profile, or undefined; the gender, the activity level and
\* the goal are strings, "" standing for a missing one as well.
Num(n) == [t |-> "number", n |-> n]
Undefined == [t |-> "undefined", n |-> 0]
falsy(v) == v.t = "undefined" \/ v.n = 0

\* What calculateCalories returns: a number, null, or NaN.
Calories(n) == [kind |-> "number", n |-> n]
NullCalories == [kind |-> "null", n |-> 0]
NaNCalories == [kind |-> "NaN", n |-> 0]
NoResult == [kind |-> "none", n |-> 0]

\* Math.round of n / d for d > 0: the nearest integer, a half going up
MathRound(n, d) == (2 * n + d) \div (2 * d)

\* The activity multipliers, in thousandths.
activityMap == [sedentary |-> 1200, light |-> 1375, moderate |-> 1550, active |-> 1725]

\* The Mifflin-St Jeor rate in hundredths: 10 w + 6.25 h - 5 a + 5 for a
\* male, - 161 otherwise
bmr(profile) ==
    1000 * profile.current_weight.n + 625 * profile.height.n - 500 * profile.age.n
    + (IF profile.gender = "male" THEN 500 ELSE -16100)

\* The calories in hundred-thousandths for a multiplier in thousandths,
\* with the goal's 400 taken off or put on, and rounded
caloriesWith(profile, m) ==
    LET calories == bmr(profile) * m
        adjusted == CASE profile.goal = "lose_weight" -> calories - 400 * 100000
                      [] profile.goal = "gain_weight" -> calories + 400 * 100000
                      [] OTHER -> calories
    IN  Calories(MathRound(adjusted, 100000))

\* calculateCalories of the revision with the catch-all: a level the table
\* does not have counts as sedentary (activityMultiplier[...] || 1.2)
calculateCaloriesRevised(profile) ==
    IF \/ falsy(profile.age) \/ falsy(profile.height) \/ falsy(profile.current_weight)
       \/ profile.gender = "" \/ profile.activity_level = ""
    THEN NullCalories
    ELSE caloriesWith(profile,
                      IF profile.activity_level \in DOMAIN activityMap
                      THEN activityMap[profile.activity_level]
                      ELSE activityMap.sedentary)

\* calculateCalories of app/api/chat/route.ts: a level the table does not
\* have gives undefined, the product is NaN and so is what is returned
calculateCalories(profile) ==
    IF \/ falsy(profile.age) \/ falsy(profile.height) \/ falsy(profile.current_weight)
       \/ profile.gender = "" \/ profile.activity_level = ""
    THEN NullCalories
    ELSE IF profile.activity_level \in DOMAIN activityMap
    THEN caloriesWith(profile, activityMap[profile.activity_level])
    ELSE NaNCalories

\* The profiles: a number missing, zero or set; a gender and a level
\* missing or set, one level being none of the table's; any goal.
Profiles ==
    [age : {Undefined, Num(0)} \cup {Num(n) : n \in (MaxAge - 1)..MaxAge},
     height : {Undefined, Num(0)} \cup {Num(n) : n \in (MaxHeight - 1)..MaxHeight},
     current_weight : {Undefined, Num(0), Num(MaxWeight)},
     gender : {"", "male", "female"},
     activity_level : {"", "sedentary", "light", "moderate", "active", "very_active"},
     goal : {"", "lose_weight", "gain_weight", "maintenance"}]

\* The variables of the other parts when a function is called.
CallOnly ==
    /\ AuthIdle
    /\ DiaryIdle
    /\ HttpIdle
    /\ LoginIdle
    /\ ChatIdle
    /\ AccountIdle

CaloriesInit ==
    /\ call \in [fn : {"calculateCalories", "calculateCaloriesRevised"},
                 profile : Profiles, result : {NoResult}]
    /\ CallOnly

callCalculateCalories ==
    /\ call.fn = "calculateCalories"
    /\ call.result = NoResult
    /\ call' = [call EXCEPT !.result = calculateCalories(call.profile)]
    /\ UNCHANGED <<authVars, diaryVars, httpVars, loginVars, chatVars, accountVars>>

callCalculateCaloriesRevised ==
    /\ call.fn = "calculateCaloriesRevised"
    /\ call.result = NoResult
    /\ call' = [call EXCEPT !.result = calculateCaloriesRevised(call.profile)]
    /\ UNCHANGED <<authVars, diaryVars, httpVars, loginVars, chatVars, accountVars>>

CaloriesNext == callCalculateCalories \/ callCalculateCaloriesRevised

SpecCalories == CaloriesInit /\ [][CaloriesNext]_vars

\* The queries: up to MaxWords of these words with a blank between them.
QueryWords ==
    {<<"h", "i">>, <<"H", "e", "y">>, <<"h", "o", "l", "a">>, <<"t", "h", "i", "s">>, <<"l", "o", "s", "e">>, <<"g", "a", "i", "n">>, <<"p", "a", "i", "n">>,
     <<"m", "a", "i", "n", "t", "a", "i", "n">>, <<"m", "e", "a", "l", " ", "p", "l", "a", "n">>, <<"f", "r", "u", "i", "t">>, <<"d", "i", "e", "t">>, <<"o", "k">>}

RECURSIVE join(_)
join(ws) ==
    IF Len(ws) = 0 THEN <<>>
    ELSE IF Len(ws) = 1 THEN ws[1]
    ELSE ws[1] \o <<" ">> \o join(Tail(ws))

Queries == {join(ws) : ws \in UNION {[1..n -> QueryWords] : n \in 0..MaxWords}}

\* The three versions of detectIntent.
IntentVersions == {"detectIntent", "detectIntentMealPlan", "detectIntentMemory"}

IntentInit ==
    /\ call \in [fn : IntentVersions, query : Queries, result : {"unset"}]
    /\ CallOnly

callDetectIntent ==
    /\ call.fn = "detectIntent"
    /\ call.result = "unset"
    /\ call' = [call EXCEPT !.result = detectIntent(call.query)]
    /\ UNCHANGED <<authVars, diaryVars, httpVars, loginVars, chatVars, accountVars>>

callDetectIntentMealPlan ==
    /\ call.fn = "detectIntentMealPlan"
    /\ call.result = "unset"
    /\ call' = [call EXCEPT !.result = detectIntentMealPlan(call.query)]
    /\ UNCHANGED <<authVars, diaryVars, httpVars, loginVars, chatVars, accountVars>>

callDetectIntentMemory ==
    /\ call.fn = "detectIntentMemory"
    /\ call.result = "unset"
    /\ call' = [call EXCEPT !.result = detectIntentMemory(call.query)]
    /\ UNCHANGED <<authVars, diaryVars, httpVars, loginVars, chatVars, accountVars>>

IntentNext == callDetectIntent \/ callDetectIntentMealPlan \/ callDetectIntentMemory

SpecIntent == IntentInit /\ [][IntentNext]_vars

(***************************************************************************)
(* Part 7.  POST /api/auth/register and POST /api/auth/login               *)
(***************************************************************************)

\* The fields of a request body: "" stands for a field that is missing or
\* falsy.
AccountNames == {"", "Ann"}
AccountEmails == {"", "ann@example.com", "bob@example.com"}
AccountPasswords == {"", "pw1", "pw2"}
AccountGoals == {"", "lose_weight"}
Salts == {"salt1", "salt2"}

\* bcrypt.hash(password, salt): a text that is not the password
bcryptHash(password, salt) == <<"$2a$10$", salt, password>>

\* (a comparison that finds every password to match)
bcryptCompareAlways(password, hash) == TRUE

\* bcrypt.compare(password, hash)
bcryptCompare(password, hash) ==
    /\ Len(hash) = 3
    /\ hash[1] = "$2a$10$"
    /\ hash[3] = password

\* The users table as the two routes find it: one user.
AccountsAtStart ==
    <<[id |-> 1, name |-> "Ann", email |-> "ann@example.com",
       password |-> bcryptHash("pw1", "salt1"), goal |-> "lose_weight"]>>

\* const { password: _, ...userWithoutPassword } = user
userWithoutPassword(user) == [f \in DOMAIN user \ {"password"} |-> user[f]]

\* return NextResponse.json({ message }, { status })
AccountAnswer(a, status, message) ==
    [a EXCEPT !.pc = "done", !.status = status, !.message = message]

\* What the catch of a handler answers an Error with: login the error's own
\* message, register one of its own.
AccountCaught(a, errorMessage) ==
    IF a.h = "loginPOST"
    THEN AccountAnswer(a, 500, errorMessage)
    ELSE AccountAnswer(a, 500, "Server error during registration.")

\* (a row that stores the password as it was sent)
newUserRowPlain(id, a) ==
    [id |-> id, name |-> a.name, email |-> a.email,
     password |-> <<a.password>>, goal |-> a.goal]

\* The row register's INSERT adds: name, email, hashedPassword, goal
newUserRow(id, a) ==
    [id |-> id, name |-> a.name, email |-> a.email,
     password |-> a.hashedPassword, goal |-> a.goal]

\* SELECT * FROM users WHERE email = ?
selectUsersByEmail(rows, email) ==
    SelectSeq(rows, LAMBDA row : row.email = email)

\* A request arrives when the one before it is answered: request.json(),
\* the test of the required fields and, in register, the hashing.
accountReceived(h, kind, name, email, password, goal, secret, fail, salt) ==
    LET a == [NoAccountRequest EXCEPT
                !.h = h, !.kind = kind, !.secret = secret, !.fail = fail,
                !.name = IF kind = "json" /\ h = "registerPOST" THEN name ELSE "",
                !.email = IF kind = "json" THEN email ELSE "",
                !.password = IF kind = "json" THEN password ELSE "",
                !.goal = IF kind = "json" /\ h = "registerPOST" THEN goal ELSE ""]
    IN  IF kind = "malformed"
        THEN AccountCaught(a, "Unexpected end of JSON input")
        ELSE IF h = "loginPOST"
        THEN IF a.email = "" \/ a.password = ""
             THEN AccountAnswer(a, 400, "Please provide email and password.")
             ELSE [a EXCEPT !.pc = "connect"]
        ELSE IF a.name = "" \/ a.email = "" \/ a.password = "" \/ a.goal = ""
             THEN AccountAnswer(a, 400, "Please provide all required fields.")
             ELSE [a EXCEPT !.pc = "connect",
                            !.hashedPassword = bcryptHash(a.password, salt)]

AccountArrives ==
    /\ account.pc \in {"idle", "done"}
    /\ account.n < MaxAccountRequests
    /\ \E h \in {"loginPOST", "registerPOST"}, kind \in {"malformed", "json"},
          name \in AccountNames, email \in AccountEmails,
          password \in AccountPasswords, goal \in AccountGoals,
          secret \in {NoSecret, ServerSecret},
          fail \in {"none", "connect", "query"}, salt \in Salts :
            account' = [accountReceived(h, kind, name, email, password, goal,
                                        secret, fail, salt)
                        EXCEPT !.n = account.n + 1, !.accounts0 = accounts]
    /\ UNCHANGED <<accounts, authVars, diaryVars, httpVars, loginVars, chatVars,
                   callVars>>

\* await getConnection()
accountConnect ==
    /\ account.pc = "connect"
    /\ account' =
          IF account.fail = "connect"
          THEN AccountCaught(account,
                  "Failed to connect to the database. Please check credentials.")
          ELSE [account EXCEPT
                  !.pc = IF account.h = "loginPOST" THEN "select" ELSE "insert"]
    /\ UNCHANGED <<accounts, authVars, diaryVars, httpVars, loginVars, chatVars,
                   callVars>>

\* login: the SELECT and what follows it: no row, a password that does not
\* match, no JWT_SECRET, or the token and the user without the password.
loginSelectUser ==
    /\ account.pc = "select"
    /\ account' =
          LET rows == selectUsersByEmail(accounts, account.email)
          IN  IF account.fail = "query"
              THEN AccountCaught(account, "query failed")
              ELSE IF Len(rows) = 0
              THEN AccountAnswer(account, 404, "User not found.")
              ELSE IF ~bcryptCompare(account.password, rows[1].password)
              THEN AccountAnswer(account, 401, "Invalid credentials.")
              ELSE IF account.secret = NoSecret
              THEN AccountCaught(account, "JWT_SECRET is not defined.")
              ELSE [AccountAnswer(account, 200, "Login successful!") EXCEPT
                      !.user = userWithoutPassword(rows[1]),
                      !.token = jwtSign([id |-> rows[1].id,
                                         email |-> rows[1].email,
                                         name |-> rows[1].name],
                                        account.secret, 0)]
    /\ UNCHANGED <<accounts, authVars, diaryVars, httpVars, loginVars, chatVars,
                   callVars>>

\* register: INSERT INTO users ..., which the table's key on email makes
\* throw ER_DUP_ENTRY for an e-mail that a row has.
registerInsertUser ==
    /\ account.pc = "insert"
    /\ IF account.fail = "query"
       THEN /\ account' = AccountCaught(account, "query failed")
            /\ UNCHANGED accounts
       ELSE IF Len(selectUsersByEmail(accounts, account.email)) > 0
       THEN /\ account' = AccountAnswer(account, 409, "Email already exists.")
            /\ UNCHANGED accounts
       ELSE /\ accounts' = Append(accounts, newUserRow(Len(accounts) + 1, account))
            /\ account' = AccountAnswer(account, 201, "User registered successfully!")
    /\ UNCHANGED <<authVars, diaryVars, httpVars, loginVars, chatVars, callVars>>

AccountInit ==
    /\ accounts = AccountsAtStart
    /\ account = NoAccountRequest
    /\ AuthIdle
    /\ DiaryIdle
    /\ HttpIdle
    /\ LoginIdle
    /\ ChatIdle
    /\ CallIdle

AccountNext ==
    \/ AccountArrives \/ accountConnect \/ loginSelectUser \/ registerInsertUser

SpecAccount == AccountInit /\ [][AccountNext]_vars

(***************************************************************************)
(* Part 8.  GET /api/food: the local search and the USDA search            *)
(***************************************************************************)

\* LIMIT 20 of the local query
LocalLimit == 20

\* The search parameter: '' when it is missing or empty.
FoodSearches == {<<>>, <<"e", "g", "g">>, <<"r", "i", "c", "e">>}

\* A DECIMAL column as the driver returns it, and parseFloat of it
Decimal(n) == [decimal |-> n]
parseFloat(d) == d.decimal

FoodRow(id, name) ==
    [id |-> id, name |-> name, calories |-> Decimal(70), protein |-> Decimal(6),
     carbs |-> Decimal(1), fat |-> Decimal(5), serving_size |-> Decimal(100),
     serving_unit |-> "g"]

\* food_items as the request finds it: empty, three rows, or one row more
\* than the query's limit, all of one name.
FoodTables ==
    {<<>>,
     <<FoodRow(1, <<"e", "g", "g">>), FoodRow(2, <<"r", "i", "c", "e">>), FoodRow(3, <<"e", "g", "g", " ", "r", "i", "c", "e">>)>>,
     [i \in 1..(LocalLimit + 1) |-> FoodRow(i, <<"e", "g", "g">>)]}

\* What can fail in searchLocalDB.
LocalFailures == {"none", "getConnection", "execute", "end"}

\* An id as a string: a number's digits, or 'usda-' and the fdcId's digits.
toString(n) == [prefix |-> "", n |-> n]
usdaId(fdcId) == [prefix |-> "usda-", n |-> fdcId]

\* name LIKE '%query%'
like(name, query) == includes(name, query)

\* LIMIT n
limit(rows, n) == SubSeq(rows, 1, IF Len(rows) < n THEN Len(rows) ELSE n)

\* searchLocalDB: the rows of the query as FoodItems, [] when anything in
\* its try throws
searchLocalDB(query, rows, fail) ==
    IF fail # "none" THEN <<>>
    ELSE LET hit(row) == like(row.name, query)
             found == limit(SelectSeq(rows, hit), LocalLimit)
         IN  [i \in 1..Len(found) |->
                [id |-> toString(found[i].id),
                 name |-> found[i].name,
                 calories |-> parseFloat(found[i].calories),
                 protein |-> parseFloat(found[i].protein),
                 carbs |-> parseFloat(found[i].carbs),
                 fat |-> parseFloat(found[i].fat),
                 serving_size |-> parseFloat(found[i].serving_size),
                 serving_unit |-> found[i].serving_unit]]

\* A food of the USDA response: the value of a nutrient is 0 when the
\* nutrient is missing from foodNutrients, or has no value, or has value 0;
\* description is empty when the food has none.
UsdaFood(fdcId, description, hasNutrients, energy, protein, fat, carbs) ==
    [fdcId |-> fdcId, description |-> description,
     hasNutrients |-> hasNutrients, n1008 |-> energy, n1003 |-> protein,
     n1004 |-> fat, n1005 |-> carbs]

UsdaFoods ==
    {UsdaFood(101, <<"E", "g", "g", ",", " ", "w", "h", "o", "l", "e">>, TRUE, 143, 13, 10, 1),
     UsdaFood(102, <<>>, TRUE, 143, 13, 10, 1),
     UsdaFood(103, <<"W", "a", "t", "e", "r">>, TRUE, 0, 0, 0, 0),
     UsdaFood(104, <<"E", "g", "g", " ", "w", "h", "i", "t", "e">>, TRUE, 0, 11, 0, 0),
     UsdaFood(105, <<"R", "i", "c", "e">>, FALSE, 0, 0, 0, 0)}

\* What fetch gives: a response that is not ok, an exception, a body
\* without foods, or a body with up to MaxFoods foods.
UsdaResponses ==
    [kind : {"notok", "threw", "nofoods"}, foods : {<<>>}]
    \cup [kind : {"ok"},
          foods : UNION {[1..n -> UsdaFoods] : n \in 0..MaxFoods}]

NullFood == [null |-> TRUE]

\* (the callback of map, keeping a food whatever its nutrients are)
formatFoodWithoutNutrients(food) ==
    IF food.description = <<>>
    THEN NullFood
    ELSE [id |-> usdaId(food.fdcId), name |-> food.description,
          calories |-> food.n1008, protein |-> food.n1003,
          carbs |-> food.n1005, fat |-> food.n1004,
          serving_size |-> 100, serving_unit |-> "g"]

\* The callback of map in searchUsdaAPI: null for a food without a
\* description or with the four nutrients all 0
formatFood(food) ==
    IF \/ food.description = <<>>
       \/ (food.n1008 = 0 /\ food.n1003 = 0 /\ food.n1004 = 0 /\ food.n1005 = 0)
    THEN NullFood
    ELSE [id |-> usdaId(food.fdcId), name |-> food.description,
          calories |-> food.n1008, protein |-> food.n1003,
          carbs |-> food.n1005, fat |-> food.n1004,
          serving_size |-> 100, serving_unit |-> "g"]

\* searchUsdaAPI: [] without a key, when the response is not ok or has no
\* foods, and when its try throws (fetch, or find on a food that has no
\* foodNutrients)
searchUsdaAPI(apiKey, response) ==
    IF ~apiKey THEN <<>>
    ELSE IF response.kind # "ok" THEN <<>>
    ELSE IF \E i \in 1..Len(response.foods) : ~response.foods[i].hasNutrients
    THEN <<>>
    ELSE LET formatted == [i \in 1..Len(response.foods) |->
                              formatFood(response.foods[i])]
             notNull(food) == food # NullFood
         IN  SelectSeq(formatted, notNull)

\* [...localResults, ...usdaResults]
combinedResults(localResults, usdaResults) == localResults \o usdaResults

\* A request of GET /api/food: its search, the table, the USDA key and
\* what the two sources will do; then the two searches' results, whether
\* fetch was called, and the answer.
FoodInit ==
    /\ call \in [fn : {"foodGET"}, pc : {"searching"},
                 search : FoodSearches, food_items : FoodTables,
                 localFail : LocalFailures, USDA_API_KEY : BOOLEAN,
                 response : UsdaResponses,
                 localDone : {FALSE}, localResults : {<<>>},
                 usdaDone : {FALSE}, usdaResults : {<<>>},
                 fetched : {FALSE}, status : {0}, foods : {<<>>}]
    /\ CallOnly

\* searchLocalDB returns.
foodSearchLocalDB ==
    /\ call.fn = "foodGET"
    /\ call.pc = "searching"
    /\ ~call.localDone
    /\ call' = [call EXCEPT
                  !.localDone = TRUE,
                  !.localResults =
                      searchLocalDB(call.search, call.food_items, call.localFail)]
    /\ UNCHANGED <<authVars, diaryVars, httpVars, loginVars, chatVars, accountVars>>

\* searchUsdaAPI returns: it is called for a search that is not empty.
foodSearchUsdaAPI ==
    /\ call.fn = "foodGET"
    /\ call.pc = "searching"
    /\ call.search # <<>>
    /\ ~call.usdaDone
    /\ call' = [call EXCEPT
                  !.usdaDone = TRUE,
                  !.fetched = call.USDA_API_KEY,
                  !.usdaResults = searchUsdaAPI(call.USDA_API_KEY, call.response)]
    /\ UNCHANGED <<authVars, diaryVars, httpVars, loginVars, chatVars, accountVars>>

\* GET answers: the local results for an empty search, both otherwise.
foodAnswers ==
    /\ call.fn = "foodGET"
    /\ call.pc = "searching"
    /\ call.localDone
    /\ call.search = <<>> \/ call.usdaDone
    /\ call' = [call EXCEPT
                  !.pc = "done",
                  !.status = 200,
                  !.foods = IF call.search = <<>>
                            THEN call.localResults
                            ELSE combinedResults(call.localResults,
                                                 call.usdaResults)]
    /\ UNCHANGED <<authVars, diaryVars, httpVars, loginVars, chatVars, accountVars>>

FoodNext == foodSearchLocalDB \/ foodSearchUsdaAPI \/ foodAnswers

SpecFood == FoodInit /\ [][FoodNext]_vars

\* A request that is being served, and a sequence that begins another.
InFlight(r) == chat[r].pc \notin {"idle", "done"}
IsPrefix(s, t) == Len(s) <= Len(t) /\ SubSeq(t, 1, Len(s)) = s

C13_OneSideAiOtherTheWriter ==
    \A i \in 1..Len(messages) :
        LET row == messages[i]
        IN  /\ (row.sender_id = 0) # (row.receiver_id = 0)
            /\ row.by # 0
            /\ (IF row.sender_id = 0 THEN row.receiver_id ELSE row.sender_id) = row.by
            /\ row.origin = "body" => (row.sender_id = row.by /\ row.receiver_id = 0)
            /\ row.origin # "body" => (row.sender_id = 0 /\ row.receiver_id = row.by)

\* A user's message and the reply to it are in the table.
C13_MessageAndReplyStored ==
    /\ \E i \in 1..Len(messages) : messages[i].origin = "body" /\ messages[i].sender_id = 2
    /\ \E i \in 1..Len(messages) : messages[i].origin = "reply" /\ messages[i].receiver_id = 2

\* C14: GET /api/chat returns the user's messages in the order in which
\* they were inserted, and what an earlier GET returned to the user begins
\* what every later GET returns.
C14_TranscriptInOrderAndGrowing ==
    \A r \in DOMAIN chat :
        (chat[r].h \in ChatGets /\ chat[r].pc = "done" /\ chat[r].status = 200) =>
            /\ \A i, j \in 1..Len(chat[r].result) :
                  i < j => chat[r].result[i].id < chat[r].result[j].id
            /\ IsPrefix(chat[r].prev, chat[r].result)

\* C15: a POST /api/chat of an authenticated user whose message is not
\* empty after trimming and which returns a reply has appended exactly two
\* rows: the trimmed message from the user to 0, then the returned reply
\* from 0 to the user; an empty or blank message is answered 400 and
\* appends nothing.
C15_PostAppendsMessageThenReply ==
    \A r \in DOMAIN chat :
        LET c == chat[r]
            n == Len(c.messages0)
        IN  (c.h \in ChatPosts /\ c.pc = "done" /\ c.user # 0) =>
                /\ c.status = 200 =>
                      /\ Len(messages) = n + 2
                      /\ IsPrefix(c.messages0, messages)
                      /\ messages[n + 1].sender_id = c.user
                      /\ messages[n + 1].receiver_id = 0
                      /\ messages[n + 1].message = trim(c.body.text)
                      /\ messages[n + 2].sender_id = 0
                      /\ messages[n + 2].receiver_id = c.user
                      /\ messages[n + 2].message = c.reply
                /\ (c.body.kind = "text" /\ trim(c.body.text) = <<>>) =>
                      (c.status = 400 /\ messages = c.messages0)

\* C16: when a request is answered, every connection it opened has been
\* closed, whatever failed on the way.
C16_NoConnectionLeftOpen == http.pc = "done" => http.conns = 0

\* The calories as C17 gives them, in hundred-thousandths before rounding:
\* (10 w + 6.25 h - 5 a + s) m + g for the multiplier m in thousandths.
ClaimedCalories(profile, m) ==
    LET s == IF profile.gender = "male" THEN 5 ELSE -161
        g == CASE profile.goal = "lose_weight" -> -400
               [] profile.goal = "gain_weight" -> 400
               [] OTHER -> 0
        rate == 1000 * profile.current_weight.n + 625 * profile.height.n
                - 500 * profile.age.n + 100 * s
    IN  MathRound(rate * m + g * 100000, 100000)

\* C17: calculateCalories returns null iff the age, the height, the weight,
\* the gender or the activity level is missing or zero; otherwise it
\* returns round((10 w + 6.25 h - 5 a + s) m + g), m being one of 1.2,
\* 1.375, 1.55, 1.725 and the level's own where the level is one of the
\* four; so losing and gaining weight give the maintenance result less and
\* plus 400.
C17_CaloriesByTheFormula ==
    call.result # NoResult =>
        LET p == call.profile
            missing == \/ falsy(p.age) \/ falsy(p.height) \/ falsy(p.current_weight)
                       \/ p.gender = "" \/ p.activity_level = ""
            maintain == IF call.fn = "calculateCalories"
                        THEN calculateCalories([p EXCEPT !.goal = "maintenance"])
                        ELSE calculateCaloriesRevised([p EXCEPT !.goal = "maintenance"])
        IN  /\ (call.result = NullCalories) <=> missing
            /\ ~missing =>
                  /\ call.result.kind = "number"
                  /\ \E m \in {1200, 1375, 1550, 1725} :
                        /\ call.result.n = ClaimedCalories(p, m)
                        /\ p.activity_level \in DOMAIN activityMap =>
                              m = activityMap[p.activity_level]
                  /\ p.goal = "lose_weight" => call.result.n = maintain.n - 400
                  /\ p.goal = "gain_weight" => call.result.n = maintain.n + 400

\* The patterns of a version of detectIntent in the order of the source:
\* the label, the words of the alternation, and whether the pattern is
\* anchored at both ends.
Pattern(label, words, whole) == [label |-> label, words |-> words, whole |-> whole]
LosePattern == Pattern("weight_loss", {<<"l", "o", "s", "e">>, <<"f", "a", "t">>, <<"s", "l", "i", "m">>, <<"w", "e", "i", "g", "h", "t", " ", "l", "o", "s", "s">>}, FALSE)
GainPattern == Pattern("weight_gain", {<<"g", "a", "i", "n">>, <<"b", "u", "l", "k">>, <<"m", "u", "s", "c", "l", "e">>, <<"w", "e", "i", "g", "h", "t", " ", "g", "a", "i", "n">>}, FALSE)
IntentPatterns(fn) ==
    CASE fn = "detectIntent" ->
            <<Pattern("greeting", {<<"h", "i">>, <<"h", "e", "l", "l", "o">>, <<"h", "e", "y">>}, FALSE),
              LosePattern,
              GainPattern,
              Pattern("medical", {<<"d", "i", "a", "b", "e", "t", "e", "s">>, <<"t", "h", "y", "r", "o", "i", "d">>, <<"p", "c", "o", "d">>, <<"b", "p">>,
                                  <<"c", "h", "o", "l", "e", "s", "t", "e", "r", "o", "l">>, <<"a", "c", "i", "d", "i", "t", "y">>, <<"p", "a", "i", "n">>}, FALSE),
              Pattern("nutrition", {<<"c", "a", "l", "o", "r", "i", "e">>, <<"p", "r", "o", "t", "e", "i", "n">>, <<"d", "i", "e", "t">>, <<"f", "o", "o", "d">>,
                                    <<"m", "e", "a", "l">>}, FALSE)>>
      [] fn = "detectIntentMealPlan" ->
            <<Pattern("greeting", {<<"h", "i">>, <<"h", "e", "l", "l", "o">>, <<"h", "e", "y">>, <<"h", "o", "l", "a">>}, TRUE),
              LosePattern,
              GainPattern,
              Pattern("meal_plan", {<<"m", "e", "a", "l", " ", "p", "l", "a", "n">>, <<"f", "u", "l", "l", " ", "d", "a", "y">>, <<"d", "i", "e", "t", " ", "p", "l", "a", "n">>}, FALSE),
              Pattern("portion", {<<"f", "r", "u", "i", "t">>, <<"p", "o", "r", "t", "i", "o", "n">>, <<"s", "e", "r", "v", "i", "n", "g">>}, FALSE),
              Pattern("medical", {<<"t", "h", "y", "r", "o", "i", "d">>, <<"d", "i", "a", "b", "e", "t", "e", "s">>, <<"p", "c", "o", "d">>, <<"b", "p">>,
                                  <<"c", "h", "o", "l", "e", "s", "t", "e", "r", "o", "l">>, <<"a", "c", "i", "d", "i", "t", "y">>, <<"p", "a", "i", "n">>,
                                  <<"b", "l", "o", "a", "t", "i", "n", "g">>}, FALSE)>>
      [] fn = "detectIntentMemory" ->
            <<LosePattern,
              GainPattern,
              Pattern("maintenance", {<<"m", "a", "i", "n", "t", "a", "i", "n">>, <<"m", "a", "i", "n", "t", "e", "n", "a", "n", "c", "e">>}, FALSE),
              Pattern("medical", {<<"t", "h", "y", "r", "o", "i", "d">>, <<"d", "i", "a", "b", "e", "t", "e", "s">>, <<"p", "c", "o", "d">>, <<"b", "p">>,
                                  <<"c", "h", "o", "l", "e", "s", "t", "e", "r", "o", "l">>, <<"a", "c", "i", "d", "i", "t", "y">>, <<"p", "a", "i", "n">>,
                                  <<"b", "l", "o", "a", "t", "i", "n", "g">>}, FALSE)>>

\* The pattern matches the lowercased query q.
PatternMatches(q, p) == IF p.whole THEN q \in p.words ELSE matches(q, p.words)

\* The patterns of fn that match the query, by their place.
Hits(fn, query) ==
    {i \in 1..Len(IntentPatterns(fn)) :
        PatternMatches(toLowerCase(query), IntentPatterns(fn)[i])}

DefaultIntent(fn) == IF fn = "detectIntentMemory" THEN "null" ELSE "general"

\* C18: detectIntent returns, for every query, the label of the first
\* pattern in the order of the source that matches the lowercased query,
\* and the default label exactly when no pattern matches.
C18_FirstMatchWins ==
    call.result # "unset" =>
        LET hits == Hits(call.fn, call.query)
        IN  /\ (call.result = DefaultIntent(call.fn)) <=> (hits = {})
            /\ hits # {} =>
                  call.result =
                      IntentPatterns(call.fn)[CHOOSE i \in hits : \A j \in hits : i <= j].label

\* A query that two patterns match has got the label of the earlier one.
C18_EarlierOfTwoPatterns ==
    /\ call.fn = "detectIntent"
    /\ call.result = "weight_loss"
    /\ {2, 3} \subseteq Hits(call.fn, call.query)

\* Two queries that differ in the intent the revision detects and in
\* nothing else its getAiReply looks at (the revision with the chat memory
\* also looks for allergens).
SameButIntent(c1, c2) ==
    /\ c1.intent # c2.intent
    /\ c1.h = "chatMemoryPOST" =>
          detectUserAllergies(c1.message) = detectUserAllergies(c2.message)

\* Two answered POSTs of the same user to the same revision and server,
\* whose messages differ in the intent.
AdvicePairs ==
    {p \in (DOMAIN chat) \X (DOMAIN chat) :
        /\ p[1] < p[2]
        /\ chat[p[1]].pc = "done" /\ chat[p[2]].pc = "done"
        /\ chat[p[1]].h \in AdvicePosts /\ chat[p[1]].h = chat[p[2]].h
        /\ chat[p[1]].user = chat[p[2]].user
        /\ chat[p[1]].key = chat[p[2]].key
        /\ SameButIntent(chat[p[1]], chat[p[2]])}

\* The message is a greeting sent to the revision with the meal plans, or
\* its intent is the opposite of the profile's goal and it is sent to the
\* revision with the catch-all.
AnsweredWithoutTheApi(c) ==
    \/ /\ c.h = "chatPlanPOST"
       /\ c.intent = "greeting"
    \/ /\ c.h = "chatMessagePOST"
       /\ \/ /\ c.users0[c.user].goal = "gain_weight"
             /\ c.intent = "weight_loss"
          \/ /\ c.users0[c.user].goal = "lose_weight"
             /\ c.intent = "weight_gain"

\* C19 as the specification has it: of two chat requests that differ in
\* the detected intent only, both call the external API or neither does,
\* and both persist the same number of rows.
C19_IntentOnlyPicksThePrompt ==
    \A p \in AdvicePairs :
        /\ chat[p[1]].fetched = chat[p[2]].fetched
        /\ Len(chat[p[1]].ins) = Len(chat[p[2]].ins)

\* C19: two chat requests that differ in the detected intent only persist
\* the same number of rows, and both call the external API or neither
\* does unless one of them is a greeting to the revision with the meal
\* plans or asks the revision with the catch-all for the opposite of the
\* profile's goal.
C19_IntentPicksThePromptOrTheAnswer ==
    \A p \in AdvicePairs :
        /\ Len(chat[p[1]].ins) = Len(chat[p[2]].ins)
        /\ (~AnsweredWithoutTheApi(chat[p[1]]) /\ ~AnsweredWithoutTheApi(chat[p[2]]))
              => chat[p[1]].fetched = chat[p[2]].fetched

\* Two requests of different intents were both answered by the API, and
\* each persisted its message and the reply.
C19_BothAskedTheApi ==
    \E p \in AdvicePairs :
        /\ chat[p[1]].fetched /\ chat[p[2]].fetched
        /\ Len(chat[p[1]].ins) = 2 /\ Len(chat[p[2]].ins) = 2

\* The places in the user's allergy list of the allergens one of whose
\* aliases the lowercased query contains.
HeldAndNamed(c) ==
    LET list == getChatContext(server.chatMemory, c.user).allergies
    IN  {i \in 1..Len(list) :
            \E alias \in loadFoodVocabulary[list[i]] :
                includes(toLowerCase(c.message), alias)}

\* C20: in the revision with the chat memory, when the lowercased query
\* contains an alias of an allergen of the user's allergy list, what
\* getAiReply returns is the refusal naming that allergen (the first such
\* of the list), and the external API is not called for the request.
C20_AllergenRefusedWithoutTheApi ==
    \A r \in DOMAIN chat :
        LET c == chat[r]
            list == getChatContext(server.chatMemory, c.user).allergies
        IN  (c.h = "chatMemoryPOST" /\ c.reply # <<>> /\ HeldAndNamed(c) # {})
               => /\ \E i \in HeldAndNamed(c) :
                        /\ \A j \in HeldAndNamed(c) : i <= j
                        /\ c.reply = Refusal(list[i])
                  /\ ~c.fetched

\* A message about eggs was refused, and the refusal stored as the reply.
C20_RefusedForEggs ==
    \E r \in DOMAIN chat :
        /\ chat[r].h = "chatMemoryPOST"
        /\ chat[r].pc = "done" /\ chat[r].status = 200
        /\ HeldAndNamed(chat[r]) # {}
        /\ chat[r].reply = Refusal("egg")
        /\ ~chat[r].fetched

\* The rows of the users table, as the request found it, that have the
\* e-mail of the request, and whether the password sent is the one the
\* first of them was hashed from.
RowsOfEmail(a) == SelectSeq(a.accounts0, LAMBDA row : row.email = a.email)
HashOfSent(a) ==
    /\ Len(RowsOfEmail(a)) > 0
    /\ \E salt \in Salts : RowsOfEmail(a)[1].password = bcryptHash(a.password, salt)

\* C21: a login whose body is JSON is answered 400 exactly when email or
\* password is missing; when nothing throws, 404 when no user has the
\* e-mail, 401 when the password is not the one the stored hash was made
\* from; 200 only when it is, and then with a token signed with the
\* server's secret for that user; 500 only on a failure or for want of a
\* secret.  No response carries the stored password, and the users table
\* stays as the login found it.
C21_LoginAnswersAndKeepsTheHash ==
    account.h = "loginPOST" =>
        /\ accounts = account.accounts0
        /\ "password" \notin DOMAIN account.user
        /\ (account.pc = "done" /\ account.kind = "json") =>
              LET missing == account.email = "" \/ account.password = ""
              IN  /\ account.status \in {400, 404, 401, 200, 500}
                  /\ account.status = 400 <=> missing
                  /\ account.status = 404 =>
                        ~missing /\ Len(RowsOfEmail(account)) = 0
                  /\ account.status = 401 =>
                        ~missing /\ Len(RowsOfEmail(account)) > 0 /\ ~HashOfSent(account)
                  /\ account.status = 200 =>
                        /\ ~missing /\ HashOfSent(account)
                        /\ account.secret # NoSecret
                        /\ account.token.lit = "jwt"
                        /\ account.token.sig = account.secret
                        /\ account.token.id = RowsOfEmail(account)[1].id
                        /\ account.user.email = account.email
                  /\ account.status = 500 =>
                        \/ account.fail # "none"
                        \/ HashOfSent(account) /\ account.secret = NoSecret
                  /\ account.status # 200 =>
                        account.token = EmptyWord /\ account.user = NoUserJson

\* A login was answered 200 with the user and a token.
C21_LoggedIn ==
    /\ account.h = "loginPOST"
    /\ account.status = 200
    /\ account.token.lit = "jwt"
    /\ account.user.name = "Ann"

C23_EveryLogHasItsFood ==
    \A l \in diary_logs : \E f \in food_items : f.id = l.food_id

\* The allergy list has no allergen twice.
NoDuplicate(list) == \A i, j \in 1..Len(list) : list[i] = list[j] => i = j

\* C24: a step that changes chatMemory is getAiReply working on the message
\* of one user: it leaves the entry of every other user as it was, sets
\* the user's active intent to the intent of the message or leaves it when
\* the message has none, and only appends to the user's allergy list,
\* which never has an allergen twice.
C24_ContextIsPerUser ==
    [][\A u \in ChatUsers :
          LET before == getChatContext(server.chatMemory, u)
              after == getChatContext(server'.chatMemory, u)
          IN  /\ IsPrefix(before.allergies, after.allergies)
              /\ NoDuplicate(after.allergies)
              /\ server'.chatMemory # server.chatMemory =>
                    \E r \in DOMAIN chat :
                        /\ chat[r].pc = "context" /\ chat'[r].pc # "context"
                        /\ u # chat[r].user =>
                              /\ after = before
                              /\ u \in DOMAIN server'.chatMemory
                                    <=> u \in DOMAIN server.chatMemory
                        /\ u = chat[r].user =>
                              after.activeIntent =
                                 IF chat[r].intent # "null"
                                 THEN chat[r].intent
                                 ELSE before.activeIntent]_vars

\* Each of two users has an entry: one with an intent and no allergen, the
\* other with another intent and an allergen.
C24_TwoUsersRemembered ==
    /\ 1 \in DOMAIN server.chatMemory /\ 2 \in DOMAIN server.chatMemory
    /\ server.chatMemory[1].activeIntent = "weight_loss"
    /\ server.chatMemory[1].allergies = <<>>
    /\ server.chatMemory[2].activeIntent = "weight_gain"
    /\ server.chatMemory[2].allergies = <<"egg">>

\* The ids GET /api/food is to answer with for the request c: of the first
\* n local rows whose name contains the search, none when the local search
\* failed; and of the response's foods that have a description and a
\* nutrient that is not 0, none when there is no key or the USDA search
\* failed.
LocalIdsOf(c, n) ==
    IF c.localFail # "none" THEN <<>>
    ELSE LET named(row) == includes(row.name, c.search)
             rows == SelectSeq(c.food_items, named)
         IN  [i \in 1..(IF Len(rows) < n THEN Len(rows) ELSE n) |->
                [prefix |-> "", n |-> rows[i].id]]

UsdaFailed(c) ==
    \/ c.response.kind # "ok"
    \/ \E i \in 1..Len(c.response.foods) : ~c.response.foods[i].hasNutrients

UsdaIdsOf(c) ==
    IF c.search = <<>> \/ ~c.USDA_API_KEY \/ UsdaFailed(c) THEN <<>>
    ELSE LET kept(food) ==
                 /\ food.description # <<>>
                 /\ ~(food.n1008 = 0 /\ food.n1003 = 0
                      /\ food.n1004 = 0 /\ food.n1005 = 0)
             foods == SelectSeq(c.response.foods, kept)
         IN  [i \in 1..Len(foods) |-> [prefix |-> "usda-", n |-> foods[i].fdcId]]

FoodAnswered(c, n) ==
    /\ c.status = 200
    /\ [i \in 1..Len(c.foods) |-> c.foods[i].id] = LocalIdsOf(c, n) \o UsdaIdsOf(c)
    /\ \A i \in 1..Len(c.foods) :
          c.foods[i].id.prefix = (IF i <= Len(LocalIdsOf(c, n)) THEN "" ELSE "usda-")
    /\ c.search = <<>> => ~c.fetched

\* C25 (as claimed): GET /api/food answers 200 with all local matches, then
\* all external matches; a source that fails gives an empty list and the
\* other source's results stay; an empty search gives the local rows only
\* and the external API is not called; external ids start with 'usda-',
\* local ids do not, and an external food without a description or with the
\* four nutrients all 0 is left out.
C25_AllLocalMatchesThenExternal ==
    (call.fn = "foodGET" /\ call.pc = "done")
        => FoodAnswered(call, Len(call.food_items))

\* C25 (amended): as claimed, the local matches being the first 20 rows
\* that match at most, as the local query has LIMIT 20.
C25_LocalMatchesUpToTheLimitThenExternal ==
    (call.fn = "foodGET" /\ call.pc = "done")
        => FoodAnswered(call, 20)

\* C25's case: a search that 21 local rows match and the external API
\* answers with a food that is kept and one that is left out: 20 local
\* foods and the kept one are returned.
C25_TwentyLocalAndOneExternal ==
    /\ call.fn = "foodGET"
    /\ call.pc = "done"
    /\ call.search # <<>>
    /\ Len(call.localResults) = 20
    /\ Len(call.response.foods) = 2
    /\ Len(call.usdaResults) = 1
    /\ Len(call.foods) = 21

\* C27: the conversation chat POST sends to the API is the up to 10 most
\* recent messages of the transcript that precede the current message, in
\* the order of their time, with role 'model' for sender 0 and 'user'
\* otherwise, then the current query as the last user turn; the current
\* query is in it once.
C27_QuerySentOnceAfterWhatPreceded ==
    \A r \in DOMAIN chat :
        LET c == chat[r]
            query == [role |-> "user", text |-> c.message]
        IN  (c.h = "chatPOST" /\ c.fetched) =>
                /\ \E rows \in orderByCreatedAt(rowsOf(c.messages0, c.user)) :
                      c.contents =
                          [i \in 1..(IF Len(rows) > 10 THEN 10 ELSE Len(rows)) |->
                              LET row == rows[Len(rows) - (IF Len(rows) > 10 THEN 10 ELSE Len(rows)) + i]
                              IN  [role |-> IF row.sender_id = 0 THEN "model" ELSE "user",
                                   text |-> row.message]]
                          \o <<query>>
                /\ Cardinality({i \in 1..Len(c.contents) : c.contents[i] = query}) = 1

\* C26: the allergy list stored for a user never loses an entry: an
\* allergen a chat POST has written to users.allergies is there in every
\* later state, also when two chat POSTs of the user that name different
\* allergens overlap.
C26_StoredAllergiesOnlyGrow ==
    [][\A u \in DOMAIN users : users[u].allergies \subseteq users'[u].allergies]_vars

\* C28: in the revision with the chat memory, getAiReply answers a query
\* with the allergy refusal only when the allergen refused for was in the
\* user's remembered list before the query was processed; a user whose
\* list is empty and who names a food of the vocabulary is not refused.
C28_RefusedOnlyForAnAllergenRemembered ==
    [][\A r \in DOMAIN chat :
          (chat[r].h = "chatMemoryPOST" /\ chat[r].pc = "context") =>
              LET list == getChatContext(server.chatMemory, chat[r].user).allergies
              IN  \A k \in 1..Len(FoodBases) :
                     chat'[r].reply = Refusal(FoodBases[k])
                         => \E i \in 1..Len(list) : list[i] = FoodBases[k]]_vars

\* C29: POST /api/chat is all or nothing on the transcript: when the
\* request ends in an error, also one that comes after the user's message
\* was inserted, it has added no row to messages.
C29_FailedPostAddsNoRow ==
    \A r \in DOMAIN chat :
        LET c == chat[r]
        IN  (c.h \in ChatPosts /\ c.pc = "done" /\ c.status = 500) =>
                /\ c.ins = <<>>
                /\ messages = c.messages0

\* C30: reads are isolated per user: GET /api/chat returns the messages
\* between the authenticated user and the AI, GET /api/diary the logs of
\* the authenticated user, and nothing a request of one user does changes
\* what a GET of another user returns; here for the diary: a step of a
\* request of one user leaves the rows GET /api/diary selects for every
\* other user and every date as they were.
C30_OthersDiaryUntouched ==
    [][\A r \in Slots :
          (req[r].pc \notin {"idle", "done"} /\ req'[r] # req[r]) =>
              \A u \in UserIds \ {req[r].user}, d \in 1..MaxDay :
                  selectDiary(diary_logs', food_items', u, d)
                      = selectDiary(diary_logs, food_items, u, d)]_vars

====
